---- MODULE Spec2Model ----
(***************************************************************************)
(* A model of the flag parser of zgo.at/zli (type Flags).                  *)
(*                                                                         *)
(* A Go string is modelled as a sequence of one-character strings, so that *)
(* the byte-level operations of the parser (TrimLeft, HasPrefix,           *)
(* IndexByte, Split) are computed rather than assumed: "-w8" is            *)
(* << "-", "w", "8" >>.  A flag is a record holding its normalised names,  *)
(* its kind and the cells v, s, e the Go code keeps behind pointers; the   *)
(* handle a constructor returns is the position of that record in          *)
(* Flags.flags.                                                            *)
(***************************************************************************)
EXTENDS Integers, Sequences, FiniteSets, TLC

VARIABLES
    Args,       \* Flags.Args
    flags,      \* Flags.flags
    optional,   \* Flags.optional
    err,        \* what the last Parse call returned
    script,     \* the calls the calling program has still to make
    pre,        \* the receiver and options at the entry of the last Parse call
    environ,    \* the environment of the process, as os.Environ() lists it
    ret,        \* what the last Shift or ShiftCommand call returned, with the
                \* commands it was called with and the receiver at entry and
                \* at return
    log,        \* the Parse calls made so far: receiver and options at entry,
                \* receiver and error at return
    program     \* the calls of the calling program, as written

vars == <<Args, flags, optional, err, script, pre, environ, ret, log, program>>

(***************************************************************************)
(* Bounds.                                                                 *)
(***************************************************************************)
MaxArgs == 3

(***************************************************************************)
(* Let(v, Body) is Body(v) with v computed once.                            *)
(***************************************************************************)
Let(v, Body(_)) == CHOOSE out \in {Body(x) : x \in {v}} : TRUE

(***************************************************************************)
(* package strings                                                         *)
(***************************************************************************)
HasPrefix(s, p) == Len(p) <= Len(s) /\ SubSeq(s, 1, Len(p)) = p

RECURSIVE TrimLeft(_, _)
TrimLeft(s, c) == IF s # <<>> /\ Head(s) = c THEN TrimLeft(Tail(s), c) ELSE s

RECURSIVE ReplaceAll(_, _, _)
ReplaceAll(s, old, new) ==
    IF s = <<>> THEN <<>>
    ELSE <<IF Head(s) = old THEN new ELSE Head(s)>> \o ReplaceAll(Tail(s), old, new)

UpperCase == <<"A", "B", "C", "D", "E", "F", "G", "H", "I", "J", "K", "L", "M",
               "N", "O", "P", "Q", "R", "S", "T", "U", "V", "W", "X", "Y", "Z">>
LowerCase == <<"a", "b", "c", "d", "e", "f", "g", "h", "i", "j", "k", "l", "m",
               "n", "o", "p", "q", "r", "s", "t", "u", "v", "w", "x", "y", "z">>

ToLowerCh(c) ==
    IF \E k \in 1..Len(UpperCase) : UpperCase[k] = c
    THEN LowerCase[CHOOSE k \in 1..Len(UpperCase) : UpperCase[k] = c]
    ELSE c

RECURSIVE ToLower(_)
ToLower(s) == IF s = <<>> THEN <<>> ELSE <<ToLowerCh(Head(s))>> \o ToLower(Tail(s))

ToUpperCh(c) ==
    IF \E k \in 1..Len(LowerCase) : LowerCase[k] = c
    THEN UpperCase[CHOOSE k \in 1..Len(LowerCase) : LowerCase[k] = c]
    ELSE c

RECURSIVE ToUpper(_)
ToUpper(s) == IF s = <<>> THEN <<>> ELSE <<ToUpperCh(Head(s))>> \o ToUpper(Tail(s))

RECURSIVE TrimRight(_, _)
TrimRight(s, c) ==
    IF s # <<>> /\ s[Len(s)] = c THEN TrimRight(SubSeq(s, 1, Len(s) - 1), c) ELSE s

\* Go's index: 0-based, -1 when c does not occur in s.
IndexByte(s, c) ==
    IF \E k \in 1..Len(s) : s[k] = c
    THEN (CHOOSE k \in 1..Len(s) : s[k] = c /\ \A j \in 1..(k - 1) : s[j] # c) - 1
    ELSE -1

\* strings.Cut(s, sep) for a separator of one character.
Cut(s, sep) ==
    LET i == IndexByte(s, sep)
    IN  IF i = -1 THEN [before |-> s, after |-> <<>>, found |-> FALSE]
        ELSE [before |-> SubSeq(s, 1, i), after |-> SubSeq(s, i + 2, Len(s)),
              found |-> TRUE]

\* strings.Split(s, sep) for a separator of one character.
RECURSIVE Split(_, _)
Split(s, sep) ==
    LET i == IndexByte(s, sep)
    IN  IF i = -1 THEN <<s>>
        ELSE <<SubSeq(s, 1, i)>> \o Split(SubSeq(s, i + 2, Len(s)), sep)

(***************************************************************************)
(* package strconv, for the literals the parser hands to it.               *)
(***************************************************************************)
DigitVal(c) ==
    CASE c = "0" -> 0 [] c = "1" -> 1 [] c = "2" -> 2 [] c = "3" -> 3
      [] c = "4" -> 4 [] c = "5" -> 5 [] c = "6" -> 6 [] c = "7" -> 7
      [] c = "8" -> 8 [] c = "9" -> 9
      [] c \in {"a", "A"} -> 10 [] c \in {"b", "B"} -> 11
      [] c \in {"c", "C"} -> 12 [] c \in {"d", "D"} -> 13
      [] c \in {"e", "E"} -> 14 [] c \in {"f", "F"} -> 15
      [] OTHER -> 99

RECURSIVE DigitsValue(_, _, _)
DigitsValue(s, base, acc) ==
    IF s = <<>> THEN acc
    ELSE IF Head(s) = "_" THEN DigitsValue(Tail(s), base, acc)
    ELSE DigitsValue(Tail(s), base, acc * base + DigitVal(Head(s)))

\* strconv.ParseInt(s, 0, 64): an optional sign, a base prefix (0x, 0b, 0o, or
\* a leading 0 for octal), digits of that base, and '_' only between digits
\* or between the prefix and the first digit.  Values stay far below 2^63 for
\* the literals of this model, so the range error is not modelled.
ParseInt(s) ==
    LET signed == s # <<>> /\ Head(s) \in {"+", "-"}
        neg    == signed /\ Head(s) = "-"
        u      == IF signed THEN Tail(s) ELSE s
        pfx    == IF Len(u) >= 2 /\ u[1] = "0"
                  THEN (IF u[2] \in {"x", "X"} THEN 16
                        ELSE IF u[2] \in {"b", "B"} THEN 2
                        ELSE IF u[2] \in {"o", "O"} THEN 8
                        ELSE 0)
                  ELSE -1
        base   == IF pfx > 0 THEN pfx ELSE IF pfx = 0 THEN 8 ELSE 10
        d      == IF pfx > 0 THEN SubSeq(u, 3, Len(u))
                  ELSE IF pfx = 0 THEN Tail(u) ELSE u
        hasPfx == pfx >= 0
        digitOK(k) == d[k] # "_" /\ DigitVal(d[k]) < base
        usOK(k)    == d[k] = "_" /\ k < Len(d) /\ d[k + 1] # "_"
                      /\ (k > 1 \/ hasPfx)
        ok     == /\ d # <<>>
                  /\ \E k \in 1..Len(d) : d[k] # "_"
                  /\ \A k \in 1..Len(d) : digitOK(k) \/ usOK(k)
        x      == DigitsValue(d, base, 0)
    IN  IF ok THEN [ok |-> TRUE, x |-> IF neg THEN 0 - x ELSE x]
        ELSE [ok |-> FALSE, x |-> 0]

RECURSIVE NormFloat(_, _)
NormFloat(m, e) == IF e > 0 /\ m % 10 = 0 THEN NormFloat(m \div 10, e - 1)
                   ELSE [m |-> m, e |-> e]

\* strconv.ParseFloat(s, 64) on decimal literals without exponent: an optional
\* sign, digits with at most one '.', at least one digit, '_' only between
\* digits.  The float64 is kept exactly, as mantissa m and e decimals
\* (m / 10^e); literals with an exponent, hexadecimal mantissas, "inf" and
\* "nan" are outside the literals of this model.
ParseFloat(s) ==
    LET signed == s # <<>> /\ Head(s) \in {"+", "-"}
        neg    == signed /\ Head(s) = "-"
        u      == IF signed THEN Tail(s) ELSE s
        dot    == IndexByte(u, ".") + 1
        isDig(k) == DigitVal(u[k]) < 10
        usOK(k)  == u[k] = "_" /\ k > 1 /\ k < Len(u)
                    /\ isDig(k - 1) /\ isDig(k + 1)
        ok     == /\ \E k \in 1..Len(u) : isDig(k)
                  /\ \A k \in 1..Len(u) : isDig(k) \/ usOK(k) \/ k = dot
        ip     == IF dot = 0 THEN u ELSE SubSeq(u, 1, dot - 1)
        fp     == IF dot = 0 THEN <<>> ELSE SubSeq(u, dot + 1, Len(u))
        m      == DigitsValue(ip \o fp, 10, 0)
        x      == NormFloat(m, Len(fp))
    IN  IF ok THEN [ok |-> TRUE, x |-> [m |-> IF neg THEN 0 - x.m ELSE x.m, e |-> x.e]]
        ELSE [ok |-> FALSE, x |-> [m |-> 0, e |-> 0]]

(***************************************************************************)
(* Errors.  The nil error is the record of kind "nil".                     *)
(***************************************************************************)
NoToken == <<>>

Err(kind, flag) == [kind |-> kind, flag |-> flag, min |-> 0, max |-> 0, n |-> 0]

nil == Err("nil", NoToken)
\* ErrFlagUnknown naming the flag without its dashes.
ErrFlagUnknown_bare(a) == Err("ErrFlagUnknown", TrimLeft(a, "-"))
ErrFlagUnknown(a) == Err("ErrFlagUnknown", a)
ErrFlagDouble(a)  == Err("ErrFlagDouble", a)
ErrFlagInvalid(a) == Err("ErrFlagInvalid", a)
ErrNeedsArgument(a) == Err("needs an argument", a)
ErrPositional(min, max, n) ==
    [kind |-> "ErrPositional", flag |-> NoToken, min |-> min, max |-> max, n |-> n]
\* ErrUnknownEnv that names the first unknown variable only.
ErrUnknownEnv_first(prefix, unknown) ==
    [kind |-> "ErrUnknownEnv", flag |-> NoToken, min |-> 0, max |-> 0, n |-> 0,
     Prefix |-> prefix, Vars |-> <<Head(unknown)>>]
\* ErrUnknownEnv{Prefix, Vars}.
ErrUnknownEnv(prefix, unknown) ==
    [kind |-> "ErrUnknownEnv", flag |-> NoToken, min |-> 0, max |-> 0, n |-> 0,
     Prefix |-> prefix, Vars |-> unknown]
\* fmt.Errorf("invalid value %q for boolean %q", val, k)
ErrInvalidBool(val, k) ==
    [kind |-> "invalid value for boolean", flag |-> k, min |-> 0, max |-> 0, n |-> 0,
     val |-> val]
\* fmt.Errorf("environment variable %q: %w", key, err)
ErrEnvironment(key, e) ==
    [kind |-> "environment variable", flag |-> key, min |-> 0, max |-> 0, n |-> 0,
     wraps |-> e]
\* The sentinel errors of ShiftCommand.
ErrCommandNoneGiven == Err("ErrCommandNoneGiven", NoToken)
ErrCommandUnknown(cmd) == Err("ErrCommandUnknown", cmd)
ErrCommandAmbiguous(cmd, opts) ==
    [kind |-> "ErrCommandAmbiguous", flag |-> NoToken, min |-> 0, max |-> 0, n |-> 0,
     Cmd |-> cmd, Opts |-> opts]

(***************************************************************************)
(* Flags: registration.                                                    *)
(***************************************************************************)
\* The normalisation without the folding of letter case.
norm_cased(name) == ReplaceAll(TrimLeft(name, "-"), "_", "-")

\* The name normalisation shared by Flags.append and Flags.match.
norm(name) == ToLower(ReplaceAll(TrimLeft(name, "-"), "_", "-"))

RECURSIVE normAll(_)
normAll(names) == IF names = <<>> THEN <<>>
                  ELSE <<norm(Head(names))>> \o normAll(Tail(names))

\* A flagBool, flagString, ... value together with the names it is filed under:
\* v, s and e are the cells behind the pointers, o is the optional mark.
flagValue(kind, def, names, o) ==
    [names |-> normAll(names), kind |-> kind, v |-> def,
     s |-> FALSE, e |-> FALSE, o |-> o]

\* The body shared by the constructors Bool, String, Int, Int32, Int64, Float64,
\* IntCounter, StringList and IntList: the new flag takes f.optional, which is
\* cleared, and is appended to f.flags.
Register(f, kind, def, names) ==
    [f EXCEPT !.flags = Append(@, flagValue(kind, def, names, f.optional)),
              !.optional = FALSE]

cpuprofile  == <<"c", "p", "u", "p", "r", "o", "f", "i", "l", "e">>
cpu_profile == <<"c", "p", "u", "-", "p", "r", "o", "f", "i", "l", "e">>
memprofile  == <<"m", "e", "m", "p", "r", "o", "f", "i", "l", "e">>
mem_profile == <<"m", "e", "m", "-", "p", "r", "o", "f", "i", "l", "e">>

(***************************************************************************)
(* Flags.match and acceptsValue.                                           *)
(***************************************************************************)
\* matches that takes any argument starting with a name, without the '='.
matches_prefix(flag, arg) ==
    \E k \in 1..Len(flag.names) : HasPrefix(arg, flag.names[k])

matches(flag, arg) ==
    \E k \in 1..Len(flag.names) :
        flag.names[k] = arg \/ HasPrefix(arg, flag.names[k] \o <<"=">>)

\* The position of the last such flag instead of the first.
match_last(fl, arg) ==
    LET a == norm(arg)
    IN  IF \E n \in 1..Len(fl) : matches(fl[n], a)
        THEN CHOOSE n \in 1..Len(fl) :
                 matches(fl[n], a) /\ \A m \in (n + 1)..Len(fl) : ~matches(fl[m], a)
        ELSE 0

\* The position in fl of the first flag one of whose names is arg or is
\* followed by '=' in arg; 0 when Go returns (flagValue{}, false).
match(fl, arg) ==
    LET a == norm(arg)
    IN  IF \E n \in 1..Len(fl) : matches(fl[n], a)
        THEN CHOOSE n \in 1..Len(fl) :
                 matches(fl[n], a) /\ \A m \in 1..(n - 1) : ~matches(fl[m], a)
        ELSE 0

\* acceptsValue that knows no kind with a value.
acceptsValue_none(val) == FALSE
acceptsValue(val) == val.kind \notin {"Bool", "IntCounter"}

(***************************************************************************)
(* Flags.Parse, first loop: grouped and fused short flags are split.       *)
(***************************************************************************)
\* dashEach that keeps the first letter of a group only.
dashEach_first(split) == IF split = <<>> THEN <<>> ELSE <<<<"-", Head(split)>>>>

RECURSIVE dashEach(_)
dashEach(split) == IF split = <<>> THEN <<>>
                   ELSE <<<<"-", Head(split)>>>> \o dashEach(Tail(split))

\* What one element of f.Args contributes to the rewritten list.
expandArg(fl, arg) ==
    IF ~HasPrefix(arg, <<"-">>) \/ arg = <<"-">> THEN <<arg>>
    ELSE IF match(fl, arg) # 0 THEN <<arg>>
    ELSE IF HasPrefix(arg, <<"-", "-">>) THEN <<arg>>
    ELSE
      LET split   == Tail(arg)
          unknown(k) == match(fl, <<split[k]>>) = 0
          valued(k)  == ~unknown(k) /\ acceptsValue(fl[match(fl, <<split[k]>>)])
          stops   == {k \in 1..Len(split) : unknown(k) \/ valued(k)}
          stop    == IF stops = {} THEN 0
                     ELSE CHOOSE k \in stops : \A j \in stops : k <= j
          found   == stop = 0 \/ ~unknown(stop)
          \* Go's shortarg is the 0-based index after the valued letter, which
          \* is the 1-based index of that letter; -1 when there is none.
          shortarg == IF stop # 0 /\ valued(stop) THEN stop ELSE -1
      IN  IF ~found THEN <<arg>>
          ELSE IF shortarg = -1 THEN dashEach(split)
          ELSE dashEach(SubSeq(split, 1, shortarg))
               \o (IF shortarg < Len(split)
                   THEN <<SubSeq(split, shortarg + 1, Len(split))>>
                   ELSE <<>>)

RECURSIVE expandArgs(_, _)
expandArgs(fl, args) ==
    IF args = <<>> THEN <<>>
    ELSE expandArg(fl, Head(args)) \o expandArgs(fl, Tail(args))

(***************************************************************************)
(* Flags.Parse, second loop.                                               *)
(***************************************************************************)
\* The closure with the value cut at the last '=' of the token.
next_last(args, i, o) ==
    LET eqs == {k \in 1..Len(args[i]) : args[i][k] = "="}
        j == IF eqs = {} THEN -1 ELSE (CHOOSE k \in eqs : \A m \in eqs : m <= k) - 1
    IN  IF j > -1
        THEN [val |-> SubSeq(args[i], j + 2, Len(args[i])), set |-> TRUE,
              hasValue |-> TRUE, skip |-> FALSE, err |-> FALSE]
        ELSE IF i >= Len(args)
        THEN (IF ~o
              THEN [val |-> <<>>, set |-> FALSE, hasValue |-> FALSE,
                    skip |-> FALSE, err |-> TRUE]
              ELSE [val |-> <<>>, set |-> TRUE, hasValue |-> FALSE,
                    skip |-> FALSE, err |-> FALSE])
        ELSE IF Len(args[i + 1]) > 1 /\ args[i + 1][1] = "-"
        THEN [val |-> <<>>, set |-> TRUE, hasValue |-> FALSE,
              skip |-> FALSE, err |-> FALSE]
        ELSE [val |-> args[i + 1], set |-> TRUE, hasValue |-> TRUE,
              skip |-> TRUE, err |-> FALSE]

\* The closure next(opt) for the token at position i (1-based) of args: the
\* value, what Set() becomes, whether there is a value, whether the following
\* token is to be skipped, and whether err was set to "needs an argument".
next(args, i, o) ==
    LET j == IndexByte(args[i], "=")
    IN  IF j > -1
        THEN [val |-> SubSeq(args[i], j + 2, Len(args[i])), set |-> TRUE,
              hasValue |-> TRUE, skip |-> FALSE, err |-> FALSE]
        ELSE IF i >= Len(args)
        THEN (IF ~o
              THEN [val |-> <<>>, set |-> FALSE, hasValue |-> FALSE,
                    skip |-> FALSE, err |-> TRUE]
              ELSE [val |-> <<>>, set |-> TRUE, hasValue |-> FALSE,
                    skip |-> FALSE, err |-> FALSE])
        ELSE IF Len(args[i + 1]) > 1 /\ args[i + 1][1] = "-"
        THEN [val |-> <<>>, set |-> TRUE, hasValue |-> FALSE,
              skip |-> FALSE, err |-> FALSE]
        ELSE [val |-> args[i + 1], set |-> TRUE, hasValue |-> TRUE,
              skip |-> TRUE, err |-> FALSE]

\* isDouble with the check left out, and with the exemption of the kinds that
\* may be repeated left out.
isDouble_never(flag) == FALSE
isDouble_all(flag) == flag.s /\ ~flag.e

\* The check made before the type switch, unless AllowMultiple is given.
isDouble(flag) ==
    /\ flag.s /\ ~flag.e
    /\ flag.kind \notin {"IntCounter", "StringList", "IntList", "Bool"}

\* append that puts the new value in front.
appendValue_front(l, x) == <<x>> \o l

\* Go's append(*v.v, n) of the two list kinds.
appendValue(l, x) == Append(l, x)

\* The list a command-line value is appended to, were it emptied at every
\* occurrence.
listBase_always(v) == <<>>

\* The list a command-line value is appended to, were the default kept.
listBase_kept(v) == v.v

\* The list a command-line value of a StringList or IntList flag is appended
\* to: `if !*v.s || *v.e { *v.v = nil }`.
listBase(v) == IF ~v.s \/ v.e THEN <<>> ELSE v.v

\* The type switch on flag.value for the token a = args[i], and the test of err
\* that follows it: the flag afterwards, whether the next token is skipped,
\* and the error Parse returns here (nil to go on).
setValue(args, i, v) ==
    LET a == args[i]
        r == next(args, i, v.o)
        needs == IF r.err THEN ErrNeedsArgument(a) ELSE nil
    IN  CASE v.kind = "Bool" ->
               [flag |-> [v EXCEPT !.s = TRUE, !.e = FALSE, !.v = TRUE],
                skip |-> FALSE, err |-> nil]
          [] v.kind = "String" ->
               [flag |-> [v EXCEPT !.s = r.set, !.e = FALSE,
                                   !.v = IF r.hasValue THEN r.val ELSE @],
                skip |-> r.skip, err |-> needs]
          [] v.kind \in {"Int", "Int64"} ->
               LET x == ParseInt(r.val)
               IN  [flag |-> [v EXCEPT !.s = r.set, !.e = FALSE,
                                       !.v = IF r.hasValue /\ x.ok THEN x.x ELSE @],
                    skip |-> r.skip,
                    err |-> IF r.hasValue /\ ~x.ok THEN ErrFlagInvalid(a) ELSE needs]
          [] v.kind = "Float64" ->
               LET x == ParseFloat(r.val)
               IN  [flag |-> [v EXCEPT !.s = r.set, !.e = FALSE,
                                       !.v = IF r.hasValue /\ x.ok THEN x.x ELSE @],
                    skip |-> r.skip,
                    err |-> IF r.hasValue /\ ~x.ok THEN ErrFlagInvalid(a) ELSE needs]
          [] v.kind = "IntCounter" ->
               [flag |-> [v EXCEPT !.s = TRUE, !.e = FALSE,
                                   !.v = (IF v.e THEN 0 ELSE @) + 1],
                skip |-> FALSE, err |-> nil]
          [] v.kind = "StringList" ->
               LET l == listBase(v)
               IN  [flag |-> [v EXCEPT !.e = FALSE,
                                       !.s = IF r.hasValue THEN r.set ELSE @,
                                       !.v = IF r.hasValue THEN appendValue(l, r.val) ELSE l],
                    skip |-> r.skip, err |-> needs]
          [] v.kind = "IntList" ->
               LET l == listBase(v)
                   x == ParseInt(r.val)
               IN  IF r.hasValue /\ x.ok
                   THEN [flag |-> [v EXCEPT !.s = r.set, !.e = FALSE,
                                            !.v = appendValue(l, x.x)],
                         skip |-> r.skip, err |-> nil]
                   ELSE [flag |-> [v EXCEPT !.v = l], skip |-> r.skip,
                         err |-> IF r.hasValue THEN ErrFlagInvalid(a) ELSE needs]
          \* flagInt32 has no case in the switch: nothing is read or written.
          [] OTHER -> [flag |-> v, skip |-> FALSE, err |-> nil]

\* One pass through the body of the loop, for the token at position i of the
\* rewritten f.Args: st holds the flags (whose cells the loop writes), the
\* positionals p collected so far, the skip mark and the error the loop
\* returns with; stop tells that the loop ends here (a return or the break).
step(args, opt, i, st) ==
    LET a == args[i]
        n == match(st.flags, a)
        r == setValue(args, i, st.flags[n])
    IN  IF st.skip THEN [st |-> [st EXCEPT !.skip = FALSE], stop |-> FALSE]
        ELSE IF a = <<>> \/ a = <<"-">> \/ a[1] # "-"
        THEN [st |-> [st EXCEPT !.p = Append(@, a)], stop |-> FALSE]
        ELSE IF a = <<"-", "-">>
        THEN [st |-> [st EXCEPT !.p = @ \o SubSeq(args, i + 1, Len(args))],
              stop |-> TRUE]
        ELSE IF n = 0
        THEN (IF opt.allowUnknown
              THEN [st |-> [st EXCEPT !.p = Append(@, a)], stop |-> FALSE]
              ELSE [st |-> [st EXCEPT !.err = ErrFlagUnknown(a)], stop |-> TRUE])
        ELSE IF ~opt.allowMultiple /\ isDouble(st.flags[n])
        THEN [st |-> [st EXCEPT !.err = ErrFlagDouble(a)], stop |-> TRUE]
        ELSE [st |-> [st EXCEPT !.flags[n] = r.flag, !.skip = r.skip, !.err = r.err],
              stop |-> r.err # nil]

\* The loop from position i on.
RECURSIVE scan(_, _, _, _)
scan(args, opt, i, st) ==
    IF i > Len(args) THEN st
    ELSE Let(step(args, opt, i, st),
             LAMBDA nx : IF nx.stop THEN nx.st ELSE scan(args, opt, i + 1, nx.st))

\* positionalError that takes every bound for set, also 0 and -1.
positionalError_strict(pos, n) == n < pos[1] \/ n > pos[2]

\* The check of the number of positionals after the loop.
positionalError(pos, n) ==
    \/ (pos[1] > 0 /\ n < pos[1])
    \/ (pos[2] > 0 /\ n > pos[2])
    \/ (pos[1] = -1 /\ n > 0)

(***************************************************************************)
(* Flags.fromEnv: the values of the environment, read before the command   *)
(* line.                                                                   *)
(***************************************************************************)
\* os.Environ(): the entries "KEY=value" of the environment, in its order.
Environ == environ

parseEnvBool(val) ==
    LET l == ToLower(val)
    IN  IF l \in {<<"1">>, <<"t", "r", "u", "e">>, <<"t">>, <<>>}
        THEN [x |-> TRUE, ok |-> TRUE]
        ELSE IF l \in {<<"0">>, <<"f", "a", "l", "s", "e">>, <<"f">>}
        THEN [x |-> FALSE, ok |-> TRUE]
        ELSE [x |-> FALSE, ok |-> FALSE]

\* The loop of setFromEnv over the elements of an IntList value: the list so
\* far and whether an element was no number.
RECURSIVE envInts(_, _)
envInts(parts, acc) ==
    IF parts = <<>> THEN [v |-> acc, ok |-> TRUE]
    ELSE IF ~ParseInt(Head(parts)).ok THEN [v |-> acc, ok |-> FALSE]
    ELSE envInts(Tail(parts), Append(acc, ParseInt(Head(parts)).x))

\* setFromEnv that binds the text as if it were given on the command line:
\* the mark e stays false.
setFromEnv_hard(v, k, val) ==
    [flag |-> [v EXCEPT !.s = TRUE, !.e = FALSE, !.v = val], err |-> nil]

\* setFromEnv(flag, k, val): the flag afterwards and the error returned.
setFromEnv(v, k, val) ==
    LET set(x) == [v EXCEPT !.s = TRUE, !.e = TRUE, !.v = x]
    IN  CASE v.kind = "Bool" ->
               LET b == parseEnvBool(val)
               IN  [flag |-> set(b.x),
                    err |-> IF b.ok THEN nil ELSE ErrInvalidBool(val, k)]
          [] v.kind = "String" -> [flag |-> set(val), err |-> nil]
          [] v.kind \in {"Int", "Int64"} ->
               LET x == ParseInt(val)
               IN  IF x.ok THEN [flag |-> set(x.x), err |-> nil]
                   ELSE [flag |-> v, err |-> ErrFlagInvalid(k)]
          [] v.kind = "Float64" ->
               LET x == ParseFloat(val)
               IN  IF x.ok THEN [flag |-> set(x.x), err |-> nil]
                   ELSE [flag |-> v, err |-> ErrFlagInvalid(k)]
          [] v.kind = "IntCounter" ->
               LET b == parseEnvBool(val)
                   x == ParseInt(val)
               IN  IF b.ok THEN [flag |-> set(IF b.x THEN 1 ELSE 0), err |-> nil]
                   ELSE IF x.ok THEN [flag |-> set(x.x), err |-> nil]
                   ELSE [flag |-> v, err |-> ErrFlagInvalid(k)]
          [] v.kind = "StringList" -> [flag |-> set(Split(val, ",")), err |-> nil]
          [] v.kind = "IntList" ->
               LET l == envInts(Split(val, ","), <<>>)
               IN  [flag |-> set(l.v),
                    err |-> IF l.ok THEN nil ELSE ErrFlagInvalid(k)]
          \* flagInt32 has no case in the switch.
          [] OTHER -> [flag |-> v, err |-> nil]

\* f.match(k, true): the first flag one of whose names of two characters or
\* more is the key (normalised like a flag name); 0 when there is none.
matchEnv(fl, k) ==
    LET a == norm(k)
        long(flag) == [flag EXCEPT !.names = SelectSeq(@, LAMBDA nm : Len(nm) >= 2)]
    IN  IF \E n \in 1..Len(fl) : matches(long(fl[n]), a)
        THEN CHOOSE n \in 1..Len(fl) :
                 matches(long(fl[n]), a) /\ \A m \in 1..(n - 1) : ~matches(long(fl[m]), a)
        ELSE 0

\* The prefix as fromEnv compares it: in upper case, with one '_' at its end.
envPrefix(prefix) ==
    IF prefix # <<>> THEN ToUpper(TrimRight(prefix, "_")) \o <<"_">> ELSE prefix

\* The key of an entry as fromEnv compares it.
envKey(e) == ReplaceAll(ToUpper(Cut(e, "=").before), "-", "_")

\* The loop of fromEnv over the entries env, with the flags fl and the unknown
\* keys collected so far.
RECURSIVE envLoop(_, _, _, _)
envLoop(fl, prefix, env, unknown) ==
    IF env = <<>>
    THEN [flags |-> fl,
          err |-> IF unknown # <<>> THEN ErrUnknownEnv(prefix, unknown) ELSE nil]
    ELSE
      LET key == envKey(Head(env))
          val == Cut(Head(env), "=").after
          k   == SubSeq(key, Len(prefix) + 1, Len(key))
          n   == matchEnv(fl, k)
          r   == setFromEnv(fl[n], k, val)
      IN  IF ~HasPrefix(key, prefix) \/ Len(k) < 2
          THEN envLoop(fl, prefix, Tail(env), unknown)
          ELSE IF n = 0
          THEN envLoop(fl, prefix, Tail(env), Append(unknown, key))
          ELSE IF r.err # nil
          THEN [flags |-> [fl EXCEPT ![n] = r.flag], err |-> ErrEnvironment(key, r.err)]
          ELSE envLoop([fl EXCEPT ![n] = r.flag], prefix, Tail(env), unknown)

fromEnv(f, prefix) ==
    Let(envLoop(f.flags, envPrefix(prefix), Environ, <<>>),
        LAMBDA r : [f |-> [f EXCEPT !.flags = r.flags], err |-> r.err])

(***************************************************************************)
(* Flags.Parse as a function of the receiver f = [Args, flags, optional]   *)
(* and the options: the receiver afterwards and the error returned.        *)
(***************************************************************************)
\* Flags.Args when Parse returns an error, were `f.Args = p` done before
\* the return instead of after it.
argsOnError_p(args, p) == p

\* Flags.Args when Parse returns an error from the loop or from the check of
\* the positionals: the rewritten list args, since `f.Args = p` comes after
\* both.
argsOnError(args, p) == args

\* Parse from the registration of the profile flags on; retErr is the
\* ErrUnknownEnv of fromEnv, or nil.
parseArgs(f, opt, retErr) ==
    Let(Register(Register(f, "String", <<>>, <<cpuprofile, cpu_profile>>),
                 "String", <<>>, <<memprofile, mem_profile>>),
        LAMBDA f2 :
    Let(expandArgs(f2.flags, f2.Args),
        LAMBDA args :
    Let(scan(args, opt, 1,
             [flags |-> f2.flags, p |-> <<>>, skip |-> FALSE, err |-> nil]),
        LAMBDA st :
        IF st.err # nil
        THEN [f |-> [f2 EXCEPT !.Args = argsOnError(args, st.p), !.flags = st.flags],
              err |-> st.err]
        ELSE IF positionalError(opt.pos, Len(st.p))
        THEN [f |-> [f2 EXCEPT !.Args = argsOnError(args, st.p), !.flags = st.flags],
              err |-> ErrPositional(opt.pos[1], opt.pos[2], Len(st.p))]
        ELSE [f |-> [f2 EXCEPT !.Args = st.p, !.flags = st.flags], err |-> retErr])))

Parse(f, opt) ==
    IF opt.fromEnv
    THEN Let(fromEnv(f, opt.envPrefix),
             LAMBDA e : IF e.err.kind \in {"nil", "ErrUnknownEnv"}
                        THEN parseArgs(e.f, opt, e.err)
                        ELSE [f |-> e.f, err |-> e.err])
    ELSE parseArgs(f, opt, nil)

(***************************************************************************)
(* NewFlags.  Program, the base name of args[0], plays no part in parsing   *)
(* and is left out.                                                        *)
(***************************************************************************)
NewFlags(args) ==
    [Args |-> IF Len(args) > 1 THEN Tail(args) ELSE <<>>,
     flags |-> <<>>, optional |-> FALSE]

(***************************************************************************)
(* Shift and ShiftCommand.  The empty string Shift returns for an empty    *)
(* list is the empty sequence, like an empty token.                        *)
(***************************************************************************)
Shift(f) ==
    IF Len(f.Args) = 0 THEN [f |-> f, a |-> <<>>]
    ELSE [f |-> [f EXCEPT !.Args = Tail(@)], a |-> Head(f.Args)]

\* The first loop of ShiftCommand without the append to pushback.
RECURSIVE shiftLoop_lost(_, _)
shiftLoop_lost(f, pushback) ==
    LET r == Shift(f)
    IN  IF r.a = <<>> THEN [f |-> r.f, cmd |-> <<>>, pushback |-> pushback]
        ELSE IF r.a[1] = "-" \/ IndexByte(r.a, "=") > -1
        THEN shiftLoop_lost(r.f, pushback)
        ELSE [f |-> r.f, cmd |-> r.a, pushback |-> pushback]

\* The first loop of ShiftCommand: the receiver and the candidate cmd when
\* the loop is left by its break, with the tokens pushed back so far.
RECURSIVE shiftLoop(_, _)
shiftLoop(f, pushback) ==
    LET r == Shift(f)
    IN  IF r.a = <<>> THEN [f |-> r.f, cmd |-> <<>>, pushback |-> pushback]
        ELSE IF r.a[1] = "-" \/ IndexByte(r.a, "=") > -1
        THEN shiftLoop(r.f, Append(pushback, r.a))
        ELSE [f |-> r.f, cmd |-> r.a, pushback |-> pushback]

\* findCommand that lists a command once, whatever the number of entries
\* that resolve to it.
RECURSIVE findCommand_once(_, _, _)
findCommand_once(cmds, cmd, found) ==
    IF cmds = <<>> THEN [exact |-> FALSE, found |-> found]
    ELSE LET c == Head(cmds)
             i == IndexByte(c, "=")
             t == IF i > -1 THEN SubSeq(c, i + 2, Len(c)) ELSE c
         IN  IF c = cmd THEN [exact |-> TRUE, found |-> found]
             ELSE IF HasPrefix(c, cmd) /\ \A k \in 1..Len(found) : found[k] # t
             THEN findCommand_once(Tail(cmds), cmd, Append(found, t))
             ELSE findCommand_once(Tail(cmds), cmd, found)

\* findCommand without the test for an exact match.
RECURSIVE findCommand_prefixes(_, _, _)
findCommand_prefixes(cmds, cmd, found) ==
    IF cmds = <<>> THEN [exact |-> FALSE, found |-> found]
    ELSE LET c == Head(cmds)
             i == IndexByte(c, "=")
         IN  IF HasPrefix(c, cmd)
             THEN findCommand_prefixes(Tail(cmds), cmd,
                              Append(found, IF i > -1 THEN SubSeq(c, i + 2, Len(c)) ELSE c))
             ELSE findCommand_prefixes(Tail(cmds), cmd, found)

\* The loop over cmds: the command of an exact match, or the entries found
\* that start with cmd, each alias replaced by its target.
RECURSIVE findCommand(_, _, _)
findCommand(cmds, cmd, found) ==
    IF cmds = <<>> THEN [exact |-> FALSE, found |-> found]
    ELSE LET c == Head(cmds)
             i == IndexByte(c, "=")
         IN  IF c = cmd THEN [exact |-> TRUE, found |-> found]
             ELSE IF HasPrefix(c, cmd)
             THEN findCommand(Tail(cmds), cmd,
                              Append(found, IF i > -1 THEN SubSeq(c, i + 2, Len(c)) ELSE c))
             ELSE findCommand(Tail(cmds), cmd, found)

\* ShiftCommand that pushes the skipped tokens back also when it finds no
\* command.
ShiftCommand_restoring(f, cmds) ==
    Let(shiftLoop(f, <<>>), LAMBDA l :
        IF l.cmd = <<>>
        THEN [f |-> [l.f EXCEPT !.Args = l.pushback \o @], cmd |-> <<>>,
              err |-> ErrCommandNoneGiven]
        ELSE
          Let([l.f EXCEPT !.Args = l.pushback \o @], LAMBDA g :
          Let(ToLower(l.cmd), LAMBDA cmd :
              IF Len(cmds) = 0 THEN [f |-> g, cmd |-> cmd, err |-> nil]
              ELSE Let(findCommand(cmds, cmd, <<>>), LAMBDA r :
                   IF r.exact THEN [f |-> g, cmd |-> cmd, err |-> nil]
                   ELSE IF Len(r.found) = 0
                   THEN [f |-> g, cmd |-> <<>>, err |-> ErrCommandUnknown(cmd)]
                   ELSE IF Len(r.found) = 1
                   THEN [f |-> g, cmd |-> r.found[1], err |-> nil]
                   ELSE [f |-> g, cmd |-> <<>>,
                         err |-> ErrCommandAmbiguous(cmd, r.found)]))))

\* ShiftCommand(cmds...): the receiver afterwards, the command and the error.
ShiftCommand(f, cmds) ==
    Let(shiftLoop(f, <<>>), LAMBDA l :
        IF l.cmd = <<>> THEN [f |-> l.f, cmd |-> <<>>, err |-> ErrCommandNoneGiven]
        ELSE
          Let([l.f EXCEPT !.Args = l.pushback \o @], LAMBDA g :
          Let(ToLower(l.cmd), LAMBDA cmd :
              IF Len(cmds) = 0 THEN [f |-> g, cmd |-> cmd, err |-> nil]
              ELSE Let(findCommand(cmds, cmd, <<>>), LAMBDA r :
                   IF r.exact THEN [f |-> g, cmd |-> cmd, err |-> nil]
                   ELSE IF Len(r.found) = 0
                   THEN [f |-> g, cmd |-> <<>>, err |-> ErrCommandUnknown(cmd)]
                   ELSE IF Len(r.found) = 1
                   THEN [f |-> g, cmd |-> r.found[1], err |-> nil]
                   ELSE [f |-> g, cmd |-> <<>>,
                         err |-> ErrCommandAmbiguous(cmd, r.found)]))))

(***************************************************************************)
(* The calling programs: what a program does with one Flags value, as the  *)
(* sequence of its calls, and the tokens its command line is made of.      *)
(***************************************************************************)
call(fn, def, names) == [fn |-> fn, def |-> def, names |-> names]
Optional == [fn |-> "Optional"]
parse(opt) == [fn |-> "Parse", opt |-> opt]
shift == [fn |-> "Shift"]
shiftCommand(cmds) == [fn |-> "ShiftCommand", cmds |-> cmds]

\* parseOpts after the options were applied; its zero value is NoOpts.
parseOpts(allowUnknown, allowMultiple, pos) ==
    [allowUnknown |-> allowUnknown, allowMultiple |-> allowMultiple,
     fromEnv |-> FALSE, envPrefix |-> <<>>, pos |-> pos]
NoOpts        == parseOpts(FALSE, FALSE, <<0, 0>>)
AllowUnknown  == parseOpts(TRUE, FALSE, <<0, 0>>)
AllowMultiple == parseOpts(FALSE, TRUE, <<0, 0>>)
Positional(min, max) == parseOpts(FALSE, FALSE, <<min, max>>)
NoPositional  == parseOpts(FALSE, FALSE, <<-1, -1>>)
FromEnv(prefix) == [NoOpts EXCEPT !.fromEnv = TRUE, !.envPrefix = prefix]

prog == <<"p", "r", "o", "g">>
F0   == [m |-> 0, e |-> 0]

Setups == {
    \* grouped booleans
    [regs |-> <<call("Bool", FALSE, <<<<"a">>>>), call("Bool", FALSE, <<<<"b">>>>),
                call("Bool", FALSE, <<<<"c">>>>)>>,
     toks |-> {<<"-", "a">>, <<"-", "a", "b">>, <<"-", "b", "a">>, <<"-", "c", "a">>,
               <<"-", "a", "b", "c">>, <<"-", "c", "b", "a">>, <<"-", "B", "a", "c">>,
               <<"x">>},
     opts |-> {NoOpts}],
    \* a boolean and a number, "--", unknown flags
    [regs |-> <<call("Bool", FALSE, <<<<"b">>>>), call("Int", 0, <<<<"w">>>>)>>,
     toks |-> {<<"-", "b">>, <<"-", "-">>, <<"-", "b", "b">>, <<"-", "w", "8">>,
               <<"x">>, <<"-", "x">>, <<"-", "x", "b">>},
     opts |-> {NoOpts, AllowUnknown}],
    \* short flags with a fused value
    [regs |-> <<call("Bool", FALSE, <<<<"b">>>>), call("Bool", FALSE, <<<<"1">>>>),
                call("Int", 0, <<<<"w">>>>)>>,
     toks |-> {<<"-", "w", "1">>, <<"-", "w", "1", "8">>, <<"-", "b", "w", "1">>,
               <<"-", "w">>, <<"1">>, <<"1", "8">>, <<"-", "w", "=", "1">>,
               <<"-", "w", "-", "b", "b">>},
     opts |-> {NoOpts}],
    \* a string and a boolean
    [regs |-> <<call("String", <<>>, <<<<"s">>>>), call("Bool", FALSE, <<<<"b">>>>)>>,
     toks |-> {<<"-", "s">>, <<"-", "s", "=", "a">>, <<"-", "s", "=", "b">>, <<"a">>,
               <<"-", "b">>, <<"-", "-">>, <<>>},
     opts |-> {NoOpts, AllowMultiple}],
    \* the numeric kinds
    [regs |-> <<call("Int", 42, <<<<"i">>>>), call("Int64", 42, <<<<"j">>>>),
                call("Float64", F0, <<<<"f">>>>)>>,
     toks |-> {<<"-", "i", "=", "1">>, <<"-", "i">>, <<"2">>, <<"-", "j", "=", "1">>,
               <<"-", "j", "2">>, <<"-", "f", "=", "1", ".", "5">>, <<"-", "f", "2">>,
               <<"-", "i", "=", "n", "o">>},
     opts |-> {NoOpts, AllowMultiple}],
    \* a long name and the letters it is made of, in both registration orders
    [regs |-> <<call("Bool", FALSE, <<<<"l", "o">>>>), call("Bool", FALSE, <<<<"l">>>>),
                call("Bool", FALSE, <<<<"o">>>>)>>,
     toks |-> {<<"-", "l", "o">>, <<"-", "-", "l", "o">>, <<"-", "o", "l">>,
               <<"-", "l">>, <<"-", "o">>, <<"x">>},
     opts |-> {NoOpts}],
    [regs |-> <<call("Bool", FALSE, <<<<"l">>>>), call("Bool", FALSE, <<<<"o">>>>),
                call("String", <<>>, <<<<"l", "o">>>>)>>,
     toks |-> {<<"-", "l", "o">>, <<"-", "-", "l", "o">>, <<"-", "o", "l">>,
               <<"-", "l">>, <<"-", "L", "O", "=", "x">>, <<"x">>},
     opts |-> {NoOpts}],
    \* the list kinds
    [regs |-> <<call("StringList", <<<<"d">>>>, <<<<"s">>>>),
                call("IntList", <<>>, <<<<"n">>>>)>>,
     toks |-> {<<"-", "s", "=", "a">>, <<"-", "s">>, <<"b">>, <<"-", "s", "c">>,
               <<"-", "n", "=", "1">>, <<"-", "n">>, <<"2">>},
     opts |-> {NoOpts}],
    \* a counter
    [regs |-> <<call("IntCounter", 2, <<<<"v">>>>), call("Bool", FALSE, <<<<"a">>>>)>>,
     toks |-> {<<"-", "v">>, <<"-", "v", "v">>, <<"-", "v", "a">>, <<"-", "a", "v">>,
               <<"x">>, <<"-", "-">>},
     opts |-> {NoOpts}],
    \* ExampleFlags
    [regs |-> <<call("IntCounter", 0, <<<<"v">>, <<"v", "e", "r", "b", "o", "s", "e">>>>),
                call("Bool", FALSE, <<<<"a">>, <<"a", "l", "l">>>>),
                call("String", <<>>, <<<<"f">>, <<"f", "o", "r", "m", "a", "t">>>>)>>,
     toks |-> {<<"-", "v", "v">>, <<"-", "f", "=", "c", "s", "v">>, <<"-", "a">>,
               <<"x", "x">>, <<"-", "v", "e", "r", "b", "o", "s", "e">>},
     opts |-> {NoOpts}],
    \* Optional()
    [regs |-> <<Optional, call("String", <<"d", "1">>, <<<<"s", "1">>>>),
                call("String", <<"d", "2">>, <<<<"s", "2">>>>)>>,
     toks |-> {<<"-", "s", "1">>, <<"-", "s", "2">>, <<"v", "a", "l">>},
     opts |-> {NoOpts}],
    \* Int32
    [regs |-> <<call("Int32", 0, <<<<"n">>>>)>>,
     toks |-> {<<"-", "n">>, <<"5">>, <<"-", "n", "=", "5">>},
     opts |-> {NoOpts, AllowMultiple}]
}

Programs ==
    UNION {{[calls |-> s.regs \o <<parse(o)>>, toks |-> s.toks] : o \in s.opts} :
           s \in Setups}

SeqsUpTo(S, n) == UNION {[1..k -> S] : k \in 0..n}

(***************************************************************************)
(* The state machine.                                                      *)
(***************************************************************************)
f == [Args |-> Args, flags |-> flags, optional |-> optional]

\* The state after NewFlags(<<prog>> \o line) in a process with the
\* environment env, for a program that is to make the given calls.
Start(calls, line, env) ==
    /\ Args = NewFlags(<<prog>> \o line).Args
    /\ flags = NewFlags(<<prog>> \o line).flags
    /\ optional = NewFlags(<<prog>> \o line).optional
    /\ err = nil
    /\ script = calls
    /\ pre = [n |-> 0, f |-> NewFlags(<<prog>> \o line), opt |-> NoOpts]
    /\ environ = env
    /\ ret = [a |-> <<>>, err |-> nil, f |-> NewFlags(<<prog>> \o line), cmds |-> <<>>, n |-> 0,
             after |-> NewFlags(<<prog>> \o line)]
    /\ log = <<>>
    /\ program = calls

Init ==
    \E pr \in Programs :
        \E line \in SeqsUpTo(pr.toks, MaxArgs) :
            Start(pr.calls, line, <<>>)

\* A call of one of the constructors.
Construct(kind) ==
    /\ script # <<>>
    /\ Head(script).fn = kind
    /\ LET g == Register(f, kind, Head(script).def, Head(script).names)
       IN  /\ flags' = g.flags
           /\ optional' = g.optional
    /\ script' = Tail(script)
    /\ UNCHANGED <<Args, err, pre, environ, ret, log, program>>

CallBool       == Construct("Bool")
CallString     == Construct("String")
CallInt        == Construct("Int")
CallInt32      == Construct("Int32")
CallInt64      == Construct("Int64")
CallFloat64    == Construct("Float64")
CallIntCounter == Construct("IntCounter")
CallStringList == Construct("StringList")
CallIntList    == Construct("IntList")

CallOptional ==
    /\ script # <<>>
    /\ Head(script).fn = "Optional"
    /\ optional' = TRUE
    /\ script' = Tail(script)
    /\ UNCHANGED <<Args, flags, err, pre, environ, ret, log, program>>

CallParse ==
    /\ script # <<>>
    /\ Head(script).fn = "Parse"
    /\ \E r \in {Parse(f, Head(script).opt)} :
           /\ Args' = r.f.Args
           /\ flags' = r.f.flags
           /\ optional' = r.f.optional
           /\ err' = r.err
           /\ log' = Append(log, [f |-> f, opt |-> Head(script).opt,
                                  after |-> r.f, err |-> r.err])
    /\ pre' = [n |-> pre.n + 1, f |-> f, opt |-> Head(script).opt]
    /\ script' = Tail(script)
    /\ UNCHANGED <<environ, ret, program>>

CallShift ==
    /\ script # <<>>
    /\ Head(script).fn = "Shift"
    /\ \E r \in {Shift(f)} :
           /\ Args' = r.f.Args
           /\ ret' = [a |-> r.a, err |-> nil, f |-> f, cmds |-> <<>>, n |-> ret.n + 1,
                      after |-> r.f]
    /\ script' = Tail(script)
    /\ UNCHANGED <<flags, optional, err, pre, environ, log, program>>

CallShiftCommand ==
    /\ script # <<>>
    /\ Head(script).fn = "ShiftCommand"
    /\ \E r \in {ShiftCommand(f, Head(script).cmds)} :
           /\ Args' = r.f.Args
           /\ ret' = [a |-> r.cmd, err |-> r.err, f |-> f, cmds |-> Head(script).cmds,
                      n |-> ret.n + 1, after |-> r.f]
    /\ script' = Tail(script)
    /\ UNCHANGED <<flags, optional, err, pre, environ, log, program>>

Next ==
    \/ CallBool \/ CallString \/ CallInt \/ CallInt32 \/ CallInt64
    \/ CallFloat64 \/ CallIntCounter \/ CallStringList \/ CallIntList
    \/ CallOptional
    \/ CallParse

Spec == Init /\ [][Next]_vars

(***************************************************************************)
(* Programs that read their defaults from the environment: Parse is called *)
(* with FromEnv, in a process whose environment holds some of the entries  *)
(* envs.                                                                   *)
(***************************************************************************)
MaxEnv     == 2
MaxEnvArgs == 2

EnvSetups == {
    \* scalar kinds, a key in another spelling, a value that is no number, and
    \* a single-letter flag
    [regs |-> <<call("String", <<"d">>, <<<<"s", "1">>>>), call("Int", 0, <<<<"n", "1">>>>),
                call("Bool", FALSE, <<<<"b">>>>)>>,
     envs |-> {<<"X", "_", "S", "1", "=", "e">>,
               <<"x", "-", "s", "1", "=", "E">>,
               <<"X", "_", "N", "1", "=", "7">>,
               <<"X", "_", "N", "1", "=", "n", "o">>,
               <<"X", "_", "B", "=", "1">>},
     toks |-> {<<"-", "s", "1", "=", "c">>, <<"-", "n", "1">>, <<"3">>,
               <<"-", "b">>},
     opts |-> {FromEnv(<<"x">>), [FromEnv(<<"x">>) EXCEPT !.allowMultiple = TRUE]}],
    \* Bool and IntCounter, a flag with an alias
    [regs |-> <<call("Bool", FALSE, <<<<"b", "1">>>>), call("Bool", TRUE, <<<<"b", "2">>, <<"a", "2">>>>),
                call("IntCounter", 2, <<<<"c", "1">>>>)>>,
     envs |-> {<<"X", "_", "B", "1", "=">>,
               <<"X", "_", "B", "1", "=", "F", "a", "l", "s", "e">>,
               <<"X", "_", "B", "1", "=", "m", "a", "y", "b", "e">>,
               <<"X", "_", "C", "1", "=", "5">>,
               <<"X", "_", "C", "1", "=", "t">>,
               <<"X", "_", "A", "2", "=", "0">>},
     toks |-> {<<"-", "b", "1">>, <<"-", "c", "1">>, <<"-", "a", "2">>,
               <<"p">>},
     opts |-> {FromEnv(<<"X", "_">>)}],
    \* the list kinds
    [regs |-> <<call("StringList", <<<<"d">>>>, <<<<"l", "1">>>>), call("IntList", <<9>>, <<<<"l", "2">>>>)>>,
     envs |-> {<<"X", "_", "L", "1", "=", "a", ",", "b">>,
               <<"X", "_", "L", "1", "=">>,
               <<"X", "_", "L", "2", "=", "1", ",", "2">>,
               <<"X", "_", "L", "2", "=", "1", ",", "x">>},
     toks |-> {<<"-", "l", "1", "=", "c">>, <<"-", "l", "1">>, <<"c">>,
               <<"-", "l", "2", "=", "3">>},
     opts |-> {FromEnv(<<"x">>)}],
    \* keys that match no flag, with and without the prefix
    [regs |-> <<call("String", <<"d">>, <<<<"s", "1">>>>), call("Float64", F0, <<<<"f", "1">>>>)>>,
     envs |-> {<<"X", "_", "S", "1", "=", "e">>,
               <<"X", "_", "Z", "Z", "=", "1">>,
               <<"X", "_", "y", "-", "y", "=", "2">>, <<"X", "X", "=", "1">>,
               <<"X", "_", "F", "1", "=", "1", ".", "5">>,
               <<"X", "_", "C", "P", "U", "P", "R", "O", "F", "I", "L", "E", "=", "p">>,
               <<"X", "_", "Q", "=", "1">>},
     toks |-> {<<"-", "s", "1", "=", "c">>, <<"p">>,
               <<"-", "f", "1", "=", "2">>, <<"-", "z", "z">>},
     opts |-> {FromEnv(<<"x">>), [FromEnv(<<"x">>) EXCEPT !.pos = <<1, 1>>]}],
    \* Int32, and an empty prefix
    [regs |-> <<call("Int32", 0, <<<<"n", "3">>>>), call("String", <<"d">>, <<<<"s", "1">>>>)>>,
     envs |-> {<<"N", "3", "=", "5">>, <<"S", "1", "=", "e">>,
               <<"H", "O", "M", "E", "=", "h">>},
     toks |-> {<<"-", "n", "3", "=", "5">>, <<"-", "s", "1", "=", "c">>,
               <<"p">>},
     opts |-> {FromEnv(<<>>)}]
}

EnvPrograms ==
    UNION {{[calls |-> s.regs \o <<parse(o)>>, toks |-> s.toks, envs |-> s.envs] :
            o \in s.opts} : s \in EnvSetups}

\* The sequences of at most n entries of S, none of them twice.
EnvsUpTo(S, n) ==
    {e \in SeqsUpTo(S, n) : \A i, j \in 1..Len(e) : i # j => e[i] # e[j]}

InitEnv ==
    \E pr \in EnvPrograms :
        \E line \in SeqsUpTo(pr.toks, MaxEnvArgs) :
            \E env \in EnvsUpTo(pr.envs, MaxEnv) :
                Start(pr.calls, line, env)

NextEnv ==
    \/ CallBool \/ CallString \/ CallInt \/ CallInt32
    \/ CallFloat64 \/ CallIntCounter \/ CallStringList \/ CallIntList
    \/ CallParse

SpecEnv == InitEnv /\ [][NextEnv]_vars

(***************************************************************************)
(* Programs that take a command from the argument list with ShiftCommand,  *)
(* some after a Shift.                                                     *)
(***************************************************************************)
MaxCmdArgs == 2

CmdTokens == {<<"h", "e", "l", "p">>, <<"h", "e">>, <<"h", "e", "l">>,
              <<"H", "E">>, <<"h", "e", "e", "e">>, <<"c">>, <<"c", "i">>,
              <<"x">>, <<"-", "v">>, <<"a", "=", "b">>, <<>>}

CmdLists == {<<<<"h", "e", "l", "p">>, <<"h", "e", "e", "e">>>>,
             <<<<"c", "o", "m", "m", "i", "t">>,
               <<"c", "i", "=", "c", "o", "m", "m", "i", "t">>>>,
             <<<<"h", "e", "l", "p", "e", "r">>, <<"h", "e", "l", "p">>,
               <<"x", "=", "h", "e", "e", "e">>>>,
             <<<<"c", "o", "=", "c", "o", "m", "m", "i", "t">>,
               <<"c", "l", "o", "n", "e">>>>,
             <<>>}

CmdPrograms ==
    {<<shiftCommand(cmds)>> : cmds \in CmdLists}
    \cup {<<shift, shiftCommand(cmds)>> : cmds \in CmdLists}

InitCmd ==
    \E calls \in CmdPrograms :
        \E line \in SeqsUpTo(CmdTokens, MaxCmdArgs) :
            Start(calls, line, <<>>)

NextCmd == CallShift \/ CallShiftCommand

SpecCmd == InitCmd /\ [][NextCmd]_vars

(***************************************************************************)
(* Programs that bound the number of positional arguments.                 *)
(***************************************************************************)
MaxPosArgs == 3

PosPrograms ==
    {[calls |-> <<call("Bool", FALSE, <<<<"v">>>>), call("String", <<>>, <<<<"s">>>>),
                  parse(o)>>,
      toks  |-> {<<"a">>, <<"b">>, <<"-", "v">>, <<"-", "s", "=", "x">>,
                 <<"-", "-">>, <<"-", "v", "v">>}] :
     o \in {Positional(min, max) : min \in -1..3, max \in -1..2} \cup {NoOpts, NoPositional}}

InitPos ==
    \E pr \in PosPrograms :
        \E line \in SeqsUpTo(pr.toks, MaxPosArgs) :
            Start(pr.calls, line, <<>>)

NextPos == CallBool \/ CallString \/ CallParse

SpecPos == InitPos /\ [][NextPos]_vars

(***************************************************************************)
(* Programs that call Parse twice on the same Flags: again after a first   *)
(* Parse, and in stages, with more flags registered in between.            *)
(***************************************************************************)
MaxTwiceArgs == 3

TwicePrograms ==
    \* the same flags parsed twice
    {[calls |-> <<call("Bool", FALSE, <<<<"b">>>>), call("String", <<"d">>, <<<<"s">>>>),
                  parse(o1), parse(o2)>>,
      toks  |-> {<<"-", "b">>, <<"-", "s", "=", "a">>, <<"-", "s">>, <<"p">>,
                 <<"-", "-">>, <<"-", "x">>}] :
     o1 \in {NoOpts, AllowUnknown, AllowMultiple}, o2 \in {NoOpts, AllowMultiple}}
    \cup
    \* TestDoubleParse: the global flags, then the flags of the command
    {[calls |-> <<call("Bool", FALSE, <<<<"g", "l">>>>), parse(AllowUnknown),
                  call("Bool", FALSE, <<<<"o", "t">>>>), call("String", <<"d">>, <<<<"s", "t">>>>),
                  parse(NoOpts)>>,
      toks  |-> {<<"-", "g", "l">>, <<"c", "m", "d">>, <<"-", "o", "t">>,
                 <<"-", "s", "t", "=", "v">>, <<"-", "s", "t">>, <<"v">>,
                 <<"-", "-">>}]}
    \cup
    \* the same with single-letter flags, which may be grouped
    {[calls |-> <<call("Bool", FALSE, <<<<"a">>>>), parse(AllowUnknown),
                  call("Bool", FALSE, <<<<"b">>>>), parse(NoOpts)>>,
      toks  |-> {<<"-", "a">>, <<"-", "b">>, <<"-", "a", "b">>,
                 <<"-", "b", "a">>, <<"p">>}]}

InitTwice ==
    \E pr \in TwicePrograms :
        \E line \in SeqsUpTo(pr.toks, MaxTwiceArgs) :
            Start(pr.calls, line, <<>>)

NextTwice == CallBool \/ CallString \/ CallParse

SpecTwice == InitTwice /\ [][NextTwice]_vars

(***************************************************************************)
(* Programs that call Optional() in front of some of their flags, as the   *)
(* "optional" cases of TestFlags do.                                       *)
(***************************************************************************)
MaxOptArgs == 3

OptPrograms ==
    LET s1 == call("String", <<"d", "1">>, <<<<"s", "1">>>>)
        s2 == call("String", <<"d", "2">>, <<<<"s", "2">>>>)
        i1 == call("Int", 11, <<<<"i", "1">>>>)
        i2 == call("Int", 12, <<<<"i", "2">>>>)
        b  == call("Bool", FALSE, <<<<"b">>>>)
        strs == {<<"-", "s", "1">>, <<"-", "s", "2">>, <<"v", "a", "l">>,
                 <<"-", "s", "1", "=", "x">>, <<"-", "-", "s", "2">>,
                 <<"-", "b">>}
        ints == {<<"-", "i", "1">>, <<"-", "i", "2">>, <<"2">>,
                 <<"-", "s", "2">>, <<"v", "a", "l">>}
    IN  {[calls |-> regs \o <<parse(NoOpts)>>, toks |-> strs] :
             regs \in {<<Optional, s1, s2>>, <<s1, Optional, s2>>, <<s1, s2>>,
                       <<Optional, Optional, s1, s2>>, <<Optional, b, s2>>}}
        \cup
        {[calls |-> <<Optional, i1, Optional, i2, s2, parse(NoOpts)>>, toks |-> ints]}

InitOpt ==
    \E pr \in OptPrograms :
        \E line \in SeqsUpTo(pr.toks, MaxOptArgs) :
            Start(pr.calls, line, <<>>)

NextOpt == CallOptional \/ CallBool \/ CallString \/ CallInt \/ CallParse

SpecOpt == InitOpt /\ [][NextOpt]_vars

(***************************************************************************)
(* Programs that register their flags under one spelling and are given     *)
(* them under another, as the "- and _ are identical" cases of TestFlags   *)
(* do.                                                                     *)
(***************************************************************************)
MaxNameArgs == 2

NamePrograms ==
    {[calls |-> <<call("String", <<>>, <<st>>), call("Bool", FALSE, <<bo, v>>),
                  parse(NoOpts)>>,
      toks  |-> {<<"-", "s", "t", "-", "r", "=", "A", "_", "b">>,
                 <<"-", "S", "T", "_", "R", "=", "a", "-", "B">>,
                 <<"-", "-", "s", "T", "_", "r">>,
                 <<"-", "-", "S", "t", "-", "R", "=">>, <<"A", "_", "b">>,
                 <<"-", "b", "o", "o", "_", "l">>,
                 <<"-", "-", "B", "O", "O", "-", "L">>, <<"-", "V">>,
                 <<"-", "v">>, <<"-", "s", "t", "=", "r">>}] :
         st \in {<<"s", "t", "-", "r">>, <<"s", "t", "_", "r">>,
                 <<"S", "T", "_", "R">>, <<"-", "-", "S", "t", "-", "r">>},
         bo \in {<<"b", "o", "o", "-", "l">>, <<"B", "o", "o", "_", "L">>},
         v  \in {<<"v">>, <<"V">>}}

InitName ==
    \E pr \in NamePrograms :
        \E line \in SeqsUpTo(pr.toks, MaxNameArgs) :
            Start(pr.calls, line, <<>>)

NextName == CallString \/ CallBool \/ CallParse

SpecName == InitName /\ [][NextName]_vars

(***************************************************************************)
(* Programs with a String flag s that is given "=value" or a value token,  *)
(* as the "argument parsing" cases of TestFlags do.                        *)
(***************************************************************************)
MaxStrArgs == 2

StrValues == {<<>>, <<"x", "x">>, <<"-", "x", "x">>, <<"-", "o">>,
              <<"a", "=", "b">>, <<"=">>, <<"-">>, <<"-", "-">>,
              <<"X", "_", "y">>}

StrPrograms ==
    {[calls |-> <<call("String", <<"d", "e", "f", "a", "u", "l", "t">>, <<<<"s">>>>),
                  call("String", <<"d", "e", "f", "a", "u", "l", "t">>, <<<<"o">>>>), parse(NoOpts)>>,
      toks  |-> {<<"-", "s">>, <<"-", "-", "s">>}
                \cup {d \o <<"s", "=">> \o v : d \in {<<"-">>, <<"-", "-">>}, v \in StrValues}
                \cup StrValues]}

InitStr ==
    \E pr \in StrPrograms :
        \E line \in SeqsUpTo(pr.toks, MaxStrArgs) :
            Start(pr.calls, line, <<>>)

NextStr == CallString \/ CallParse

SpecStr == InitStr /\ [][NextStr]_vars

(***************************************************************************)
(* Programs that register two flags under names that are the same once     *)
(* normalised.                                                             *)
(***************************************************************************)
MaxDupArgs == 2

DupPrograms ==
    {[calls |-> regs \o <<parse(o)>>,
      toks  |-> {<<"-", "s", "t", "_", "r", "=", "a">>,
                 <<"-", "-", "S", "T", "-", "R", "=", "b">>, <<"-", "v">>,
                 <<"-", "x", "=", "q">>, <<"-", "b", "2", "=", "q">>,
                 <<"p">>}] :
         regs \in {<<call("String", <<"d", "1">>, <<<<"s", "t", "-", "r">>>>), call("String", <<"d", "2">>, <<<<"S", "T", "_", "R">>>>)>>,
                   <<call("String", <<"d", "1">>, <<<<"a", "1">>, <<"x">>>>),
                     call("Bool", FALSE, <<<<"v">>>>),
                     call("String", <<"d", "2">>, <<<<"X">>, <<"b", "2">>>>)>>,
                   <<call("Bool", FALSE, <<<<"v">>>>), call("IntCounter", 0, <<<<"V">>>>)>>,
                   <<call("IntCounter", 0, <<<<"v">>>>), call("Bool", FALSE, <<<<"V">>>>),
                     call("Bool", FALSE, <<<<"y">>>>), call("Bool", FALSE, <<<<"z">>>>)>>},
         o \in {NoOpts, AllowMultiple}}

InitDup ==
    \E pr \in DupPrograms :
        \E line \in SeqsUpTo(pr.toks, MaxDupArgs) :
            Start(pr.calls, line, <<>>)

NextDup == CallString \/ CallBool \/ CallIntCounter \/ CallParse

SpecDup == InitDup /\ [][NextDup]_vars

(***************************************************************************)
(* Programs that call ShiftCommand before or after Parse, as the           *)
(* documentation of ShiftCommand and TestShiftCommand do.                  *)
(***************************************************************************)
MaxSubArgs == 3

SubPrograms ==
    LET v == call("Bool", FALSE, <<<<"v">>>>)
        s == call("String", <<>>, <<<<"s">>>>)
    IN  {[calls |-> calls,
          toks  |-> {<<"-", "v">>, <<"-", "s", "=", "x">>, <<"-", "s">>,
                     <<"h", "e", "l", "p">>, <<"H", "e">>, <<"a", "=", "b">>,
                     <<>>}] :
             calls \in UNION {{<<v, s, shiftCommand(cmds), parse(NoOpts)>>,
                              <<v, s, parse(NoOpts), shiftCommand(cmds)>>} :
                             cmds \in {<<>>, <<<<"h", "e", "l", "p">>, <<"h", "e", "e", "e">>>>}}}

InitSub ==
    \E pr \in SubPrograms :
        \E line \in SeqsUpTo(pr.toks, MaxSubArgs) :
            Start(pr.calls, line, <<>>)

NextSub == CallBool \/ CallString \/ CallShiftCommand \/ CallParse

SpecSub == InitSub /\ [][NextSub]_vars

(***************************************************************************)
(* Programs that are given wrong input, as the "wrong input" cases of      *)
(* TestFlags are.                                                          *)
(***************************************************************************)
MaxErrArgs == 3

ErrPrograms ==
    {[calls |-> <<call("Bool", FALSE, <<<<"v">>>>), call("String", <<"d">>, <<<<"s">>>>),
                  call("Int", 42, <<<<"i">>>>), call("IntList", <<9>>, <<<<"l">>>>), parse(o)>>,
      toks  |-> {<<"-", "v">>, <<"-", "s", "=", "a">>, <<"-", "s">>,
                 <<"-", "i", "=", "n", "o">>,
                 <<"-", "i", "=", "0", "x", "1", "F">>, <<"-", "i">>,
                 <<"7">>, <<"-", "x">>, <<"-", "v", "v">>,
                 <<"-", "l", "=", "3">>, <<"-", "l", "=", "n", "o">>,
                 <<"p">>}] :
         o \in {NoOpts, AllowMultiple, Positional(1, 1)}}

InitErr ==
    \E pr \in ErrPrograms :
        \E line \in SeqsUpTo(pr.toks, MaxErrArgs) :
            Start(pr.calls, line, <<>>)

NextErr == CallBool \/ CallString \/ CallInt \/ CallIntList \/ CallParse

SpecErr == InitErr /\ [][NextErr]_vars

(***************************************************************************)
(* Programs with list flags that have a default.                           *)
(***************************************************************************)
MaxListArgs == 3

ListPrograms ==
    {[calls |-> <<call("StringList", <<<<"d">>, <<"e">>>>, <<<<"s">>>>),
                  call("IntList", <<9>>, <<<<"n">>>>), parse(NoOpts)>>,
      toks  |-> {<<"-", "s", "=", "a">>, <<"-", "s">>, <<"b">>,
                 <<"-", "s", "=", "d">>, <<"-", "n", "=", "1">>,
                 <<"-", "n">>, <<"9">>, <<"-", "-">>, <<"-", "n", "=", "x">>}]}

InitList ==
    \E pr \in ListPrograms :
        \E line \in SeqsUpTo(pr.toks, MaxListArgs) :
            Start(pr.calls, line, <<>>)

NextList == CallStringList \/ CallIntList \/ CallParse

SpecList == InitList /\ [][NextList]_vars

(***************************************************************************)
(* Programs with numeric flags that are given values that are no numbers,  *)
(* as the "not an int", "not an int64" and "not a float" cases of          *)
(* TestFlags are.                                                          *)
(***************************************************************************)
MaxNumArgs == 3

NumPrograms ==
    {[calls |-> <<call("Int", 42, <<<<"i">>>>), call("Int64", 42, <<<<"j">>>>),
                  call("Float64", F0, <<<<"f">>>>), call("IntList", <<9>>, <<<<"l">>>>),
                  parse(o)>>,
      toks  |-> {<<"-", "i", "=", "n", "o">>, <<"-", "i", "=", "5">>,
                 <<"-", "j", "=", "n", "o">>, <<"-", "j", "=", "5">>,
                 <<"-", "f", "=", "n", "o">>,
                 <<"-", "f", "=", "1", ".", "5">>,
                 <<"-", "l", "=", "n", "o">>, <<"-", "l", "=", "3">>,
                 <<"-", "i">>, <<"n", "o">>}] :
         o \in {NoOpts, AllowMultiple}}

InitNum ==
    \E pr \in NumPrograms :
        \E line \in SeqsUpTo(pr.toks, MaxNumArgs) :
            Start(pr.calls, line, <<>>)

NextNum == CallInt \/ CallInt64 \/ CallFloat64 \/ CallIntList \/ CallParse

SpecNum == InitNum /\ [][NextNum]_vars

(***************************************************************************)
(* Programs that call Parse twice on the same Flags in a process with an   *)
(* environment: first with FromEnv, then with or without it.               *)
(***************************************************************************)
MaxAgainArgs == 3

AgainPrograms ==
    {[calls |-> <<call("String", <<"d">>, <<<<"s", "1">>>>), call("Bool", FALSE, <<<<"b", "1">>>>),
                  call("Int", 0, <<<<"n", "1">>>>),
                  parse(FromEnv(<<"x">>)), parse(o2)>>,
      toks  |-> {<<"-", "s", "1", "=", "c">>, <<"-", "b", "1">>,
                 <<"-", "n", "1", "=", "3">>, <<"p">>, <<"-", "-">>,
                 <<"-", "s", "1">>},
      envs  |-> {<<"X", "_", "S", "1", "=", "e">>,
                 <<"X", "_", "B", "1", "=", "0">>,
                 <<"X", "_", "N", "1", "=", "7">>,
                 <<"X", "_", "Z", "Z", "=", "1">>}] :
         o2 \in {FromEnv(<<"x">>), NoOpts}}

InitAgain ==
    \E pr \in AgainPrograms :
        \E line \in SeqsUpTo(pr.toks, MaxAgainArgs) :
            \E env \in EnvsUpTo(pr.envs, MaxEnv) :
                Start(pr.calls, line, env)

NextAgain == CallString \/ CallBool \/ CallInt \/ CallParse

SpecAgain == InitAgain /\ [][NextAgain]_vars

(***************************************************************************)
(* Programs whose list of commands has aliases ("alias=target"), given the *)
(* beginning of a command, of an alias or of the target of an alias.       *)
(***************************************************************************)
MaxAliasArgs == 2

AliasTokens == {<<"c">>, <<"c", "i">>, <<"c", "o">>, <<"c", "o", "m">>,
                <<"c", "o", "m", "m", "i", "t">>, <<"c", "l">>, <<"-", "v">>,
                <<"C", "i">>}

AliasLists == {<<<<"c", "o", "m", "m", "i", "t">>, <<"c", "i", "=", "c", "o", "m", "m", "i", "t">>>>,
               <<<<"c", "o", "=", "c", "o", "m", "m", "i", "t">>, <<"c", "l", "o", "n", "e">>>>,
               <<<<"c", "i", "=", "c", "o", "m", "m", "i", "t">>>>,
               <<<<"c", "i", "=", "c", "o", "m", "m", "i", "t">>, <<"c", "h", "e", "c", "k", "i", "n", "=", "c", "o", "m", "m", "i", "t">>, <<"c", "l", "o", "n", "e">>>>}

InitAlias ==
    \E cmds \in AliasLists :
        \E line \in SeqsUpTo(AliasTokens, MaxAliasArgs) :
            Start(<<shiftCommand(cmds)>>, line, <<>>)

NextAlias == CallShiftCommand

SpecAlias == InitAlias /\ [][NextAlias]_vars

(***************************************************************************)
(* The vocabulary of the properties.  They speak of the first Parse call   *)
(* of a program: line is the command line it was given, given is the flags *)
(* registered when it was called, and flags[n] afterwards is the same flag *)
(* as given[n].                                                            *)
(***************************************************************************)
Parsed == pre.n = 1
line   == pre.f.Args
given  == pre.f.flags
Handles == 1..Len(given)

dashdash == <<"-", "-">>

\* A token that looks like a flag: it starts with '-' and is longer than one
\* character.
flagLike(t) == Len(t) > 1 /\ t[1] = "-"

\* The kinds that take a value on the command line.
valueKinds  == {"String", "Int", "Int64", "Float64", "StringList", "IntList"}
scalarKinds == {"String", "Int", "Int64", "Float64"}
switchKinds == {"Bool", "IntCounter"}

\* The position of the first "--" of a token list, or one past its end.
terminator(l) ==
    IF \E k \in 1..Len(l) : l[k] = dashdash
    THEN CHOOSE k \in 1..Len(l) : l[k] = dashdash /\ \A j \in 1..(k - 1) : l[j] # dashdash
    ELSE Len(l) + 1

\* The flags a whole token names: by one of their names, or by a name followed
\* by "=value".
named(fl, t) ==
    LET a == norm(t)
    IN  {n \in 1..Len(fl) :
            \E k \in 1..Len(fl[n].names) :
                fl[n].names[k] = a \/ HasPrefix(a, fl[n].names[k] \o <<"=">>)}

\* The flags a single letter of a group names.
lettered(fl, c) ==
    LET a == norm(<<c>>)
    IN  {n \in 1..Len(fl) : \E k \in 1..Len(fl[n].names) : fl[n].names[k] = a}

isSwitch(fl, c) == lettered(fl, c) # {} /\ \A n \in lettered(fl, c) : fl[n].kind \in switchKinds
isValued(fl, c) == lettered(fl, c) # {} /\ \A n \in lettered(fl, c) : fl[n].kind \in valueKinds

\* For a token "-xyz" that names no flag as a whole: the number of leading
\* letters that name Bool or IntCounter flags.
switches(fl, t) ==
    LET ls == Tail(t)
        ks == {k \in 1..Len(ls) : ~isSwitch(fl, ls[k])}
    IN  IF ks = {} THEN Len(ls) ELSE (CHOOSE k \in ks : \A j \in ks : k <= j) - 1

\* What a token is: "plain" when it does not look like a flag, "--", "named"
\* when it names a flag as a whole, a "group" when it has a single dash and its
\* letters all name Bool or IntCounter flags, "fused" when such letters (maybe
\* none) are followed by the letter of a value flag and then the value, and
\* "unknown" when it is none of these.  named is the flags it names as a whole
\* and sw the number of its leading Bool and IntCounter letters.
shape(fl, t) ==
    IF ~flagLike(t) THEN [is |-> "plain", named |-> {}, sw |-> 0]
    ELSE IF t = dashdash THEN [is |-> "--", named |-> {}, sw |-> 0]
    ELSE Let(named(fl, t), LAMBDA nm :
         IF nm # {} THEN [is |-> "named", named |-> nm, sw |-> 0]
         ELSE IF t[2] = "-" THEN [is |-> "unknown", named |-> {}, sw |-> 0]
         ELSE Let(switches(fl, t), LAMBDA sw :
              IF sw = Len(t) - 1 THEN [is |-> "group", named |-> {}, sw |-> sw]
              ELSE IF isValued(fl, t[sw + 2]) THEN [is |-> "fused", named |-> {}, sw |-> sw]
              ELSE [is |-> "unknown", named |-> {}, sw |-> 0]))

isGroup(fl, t) == shape(fl, t).is = "group"
isFused(fl, t) == shape(fl, t).is = "fused"

\* A flag-like token resolves when it names a flag, is a group or is fused.
resolves(fl, t) == shape(fl, t).is \in {"named", "group", "fused"}

\* The token asks for the token that follows it as its value: its flag takes a
\* value and the token carries none.
wantsNext(fl, t) ==
    \E sh \in {shape(fl, t)} :
        \/ /\ sh.is = "named"
           /\ \A n \in sh.named : fl[n].kind \in valueKinds
           /\ IndexByte(t, "=") = -1
        \/ /\ sh.is = "fused"
           /\ sh.sw = Len(t) - 2

\* The positional arguments of a command line: the tokens that are neither
\* flag tokens nor the value of a flag, and every token after "--".  A
\* flag-like token that resolves to nothing stays (it is only met on a
\* successful Parse under AllowUnknown).
RECURSIVE positionals(_, _)
positionals(fl, l) ==
    IF l = <<>> THEN <<>>
    ELSE IF Head(l) = dashdash THEN Tail(l)
    ELSE IF ~flagLike(Head(l)) \/ ~resolves(fl, Head(l))
    THEN <<Head(l)>> \o positionals(fl, Tail(l))
    ELSE IF wantsNext(fl, Head(l)) /\ Len(l) > 1 /\ ~flagLike(l[2])
    THEN positionals(fl, Tail(Tail(l)))
    ELSE positionals(fl, Tail(l))

NoInt32 == \A n \in Handles : given[n].kind # "Int32"

(***************************************************************************)
(* C1: after a Parse that returns no error, Flags.Args is exactly the      *)
(* input tokens that were neither flag tokens nor values consumed by a     *)
(* flag, in their original order, without the "--" terminator.             *)
(***************************************************************************)
C1_ArgsArePositionals ==
    (Parsed /\ err = nil /\ NoInt32) => Args = positionals(given, line)

(***************************************************************************)
(* C2: with a Bool flag b registered, Parse on <<"-b", "--">> \o T returns  *)
(* no error, sets b to true and leaves Flags.Args equal to T, token for    *)
(* token, also when tokens of T look like flags.                           *)
(***************************************************************************)
C2_AfterTerminatorVerbatim ==
    (/\ Parsed
     /\ Len(line) >= 2 /\ line[1] = <<"-", "b">> /\ line[2] = dashdash
     /\ \E n \in Handles : named(given, line[1]) = {n} /\ given[n].kind = "Bool")
    => /\ err = nil
       /\ \A n \in named(given, line[1]) : flags[n].v = TRUE /\ flags[n].s
       /\ Args = SubSeq(line, 3, Len(line))

\* The first flag token of the command line, at position k, takes a value, is
\* not optional, and has neither "=value" nor a value token after it.
C3_Lacks(k) ==
    /\ k \in 1..Len(line)
    /\ \A j \in 1..(k - 1) : ~flagLike(line[j])
    /\ flagLike(line[k])
    /\ \E n \in Handles :
           named(given, line[k]) = {n} /\ given[n].kind \in valueKinds /\ ~given[n].o
    /\ IndexByte(line[k], "=") = -1
    /\ (k = Len(line) \/ flagLike(line[k + 1]))

(***************************************************************************)
(* C3: a flag that takes a value, was not registered with Optional() and   *)
(* is given without "=value" makes Parse return "needs an argument" for    *)
(* that flag, both when it is the last token and when the token after it   *)
(* looks like a flag.  Stated for the first flag token of a command line.  *)
(***************************************************************************)
C3_NeedsArgument ==
    Parsed => \A k \in 1..Len(line) : C3_Lacks(k) => err.kind = "needs an argument" /\ err.flag = line[k]

(***************************************************************************)
(* Occurrences of value flags on a command line.                           *)
(***************************************************************************)
\* From the shape sh of the token t: the flags the token gives a value to, the
\* token that stands for the flag once a fused value is split off, and the
\* value it is given at position k of l: the text after '=', the fused text,
\* or the following token unless that one looks like a flag.
carrier(fl, t, sh) ==
    IF sh.is = "named" THEN {n \in sh.named : fl[n].kind \in valueKinds}
    ELSE IF sh.is = "fused" THEN lettered(fl, t[sh.sw + 2])
    ELSE {}

flagToken(t, sh) ==
    IF sh.is = "named" THEN t ELSE <<"-", t[sh.sw + 2]>>

valueOf(l, k, sh) ==
    LET t    == l[k]
        eq   == IndexByte(t, "=")
        rest == SubSeq(t, sh.sw + 3, Len(t))
        following == IF k < Len(l) /\ ~flagLike(l[k + 1])
                     THEN [has |-> TRUE, val |-> l[k + 1]]
                     ELSE [has |-> FALSE, val |-> <<>>]
    IN  IF sh.is = "named"
        THEN (IF eq > -1 THEN [has |-> TRUE, val |-> SubSeq(t, eq + 2, Len(t))]
              ELSE following)
        ELSE IF rest = <<>> THEN following
        ELSE [has |-> ~flagLike(rest), val |-> rest]

\* The value of a kind that a text stands for.
converted(kind, val) ==
    CASE kind \in {"Int", "Int64", "IntList"} -> ParseInt(val)
      [] kind = "Float64" -> ParseFloat(val)
      [] OTHER -> [ok |-> TRUE, x |-> val]

\* A token that cannot stop Parse: a positional, or a flag token that only
\* names Bool and IntCounter flags.
harmless(fl, sh) ==
    \/ sh.is \in {"plain", "group"}
    \/ sh.is = "named" /\ \A n \in sh.named : fl[n].kind \in switchKinds

\* A token that starts with '-', is neither "-" nor "--", and resolves to no
\* registered flag.
unknown(fl, t) == shape(fl, t).is = "unknown"

\* How the command line l reads: the position of its "--", and for each token
\* its shape, the flags it gives a value to, that value, whether the value is
\* proper (one flag, a value, and a value of the flag's kind), whether the
\* token is harmless, and whether it is unknown.
reading(fl, l) ==
    [term |-> terminator(l),
     at   |-> [k \in 1..Len(l) |->
                  Let(shape(fl, l[k]), LAMBDA sh :
                  Let(carrier(fl, l[k], sh), LAMBDA c :
                  Let(IF c = {} THEN [has |-> FALSE, val |-> <<>>] ELSE valueOf(l, k, sh),
                      LAMBDA v :
                      [shape    |-> sh,
                       carrier  |-> c,
                       value    |-> v,
                       proper   |-> /\ Cardinality(c) = 1 /\ v.has
                                    /\ \A n \in c : converted(fl[n].kind, v.val).ok,
                       harmless |-> harmless(fl, sh),
                       unknown  |-> sh.is = "unknown"])))]]

\* Flag n is given at i and next at j, the first time with a proper value, and
\* no other token before j can stop Parse.
C4_Twice(rd, n, i, j) ==
    /\ i < j /\ j < rd.term
    /\ rd.at[i].carrier = {n} /\ rd.at[j].carrier = {n}
    /\ given[n].kind \in scalarKinds
    /\ rd.at[i].proper
    /\ \A k \in 1..(j - 1) : k = i \/ rd.at[k].harmless

\* Every flag token before "--" is harmless or gives a scalar flag a proper
\* value, and flag n is given at i and j, at j for the last time.
C4_Last(rd, n, i, j) ==
    /\ i < j /\ j < rd.term
    /\ rd.at[i].carrier = {n} /\ rd.at[j].carrier = {n}
    /\ given[n].kind \in scalarKinds
    /\ \A k \in (j + 1)..(rd.term - 1) : rd.at[k].carrier # {n}
    /\ \A k \in 1..(rd.term - 1) :
           \/ rd.at[k].harmless
           \/ /\ rd.at[k].proper
              /\ \A m \in rd.at[k].carrier : given[m].kind \in scalarKinds

C5_FirstUnknown(rd, k) ==
    /\ k < rd.term
    /\ rd.at[k].unknown
    /\ \A j \in 1..(k - 1) : rd.at[j].harmless

\* The flag tokens of the command line are unknown or name Bool and IntCounter
\* flags only, and there is no "--".
C5_Plain(rd) ==
    /\ rd.term > Len(line)
    /\ \A k \in 1..Len(line) : rd.at[k].harmless \/ rd.at[k].unknown

\* The tokens of l that are positional or unknown.
RECURSIVE kept(_, _)
kept(fl, l) ==
    IF l = <<>> THEN <<>>
    ELSE IF ~flagLike(Head(l)) \/ unknown(fl, Head(l))
    THEN <<Head(l)>> \o kept(fl, Tail(l))
    ELSE kept(fl, Tail(l))

(***************************************************************************)
(* C5: a token that starts with '-', is neither "-" nor "--" and resolves  *)
(* to no registered flag makes Parse return the unknown-flag error naming  *)
(* that token; with AllowUnknown the token is kept as a positional at its  *)
(* place among the positionals and the scan goes on: the flags after it    *)
(* are bound.                                                              *)
(***************************************************************************)
C5_UnknownFlag ==
    (Parsed /\ pre.opt.pos = <<0, 0>>) =>
        \A rd \in {reading(given, line)} :
            /\ ~pre.opt.allowUnknown =>
                   \A k \in 1..Len(line) :
                       C5_FirstUnknown(rd, k) =>
                           err.kind = "ErrFlagUnknown" /\ err.flag = line[k]
            /\ (pre.opt.allowUnknown /\ C5_Plain(rd)) =>
                   /\ err = nil
                   /\ Args = kept(given, line)
                   /\ \A k \in 1..Len(line) : \A n \in rd.at[k].shape.named :
                          flags[n].s

C5_Witness ==
    /\ Parsed /\ ~pre.opt.allowUnknown
    /\ err.kind = "ErrFlagUnknown"
    /\ \E rd \in {reading(given, line)} : \E k \in 2..Len(line) :
           /\ C5_FirstUnknown(rd, k)
           /\ Len(line[k]) > 2 /\ flagLike(line[k - 1])

(***************************************************************************)
(* Groups and fused values, written out.                                   *)
(***************************************************************************)
RECURSIVE singles(_)
singles(ls) == IF ls = <<>> THEN <<>> ELSE <<<<"-", Head(ls)>>>> \o singles(Tail(ls))

isBool(fl, c) == lettered(fl, c) # {} /\ \A n \in lettered(fl, c) : fl[n].kind = "Bool"

\* The number of leading letters of "-xyz" that name Bool flags.
bools(fl, t) ==
    LET ls == Tail(t)
        ks == {k \in 1..Len(ls) : ~isBool(fl, ls[k])}
    IN  IF ks = {} THEN Len(ls) ELSE (CHOOSE k \in ks : \A j \in ks : k <= j) - 1

equalsName(fl, t) == \E n \in 1..Len(fl) : \E k \in 1..Len(fl[n].names) : fl[n].names[k] = norm(t)

\* "-abc": two or more letters of Bool flags behind a single dash, the whole
\* being no registered name.
boolGroup(fl, t) ==
    /\ Len(t) > 2 /\ t[1] = "-" /\ t[2] # "-"
    /\ ~equalsName(fl, t)
    /\ bools(fl, t) = Len(t) - 1

\* "-wN" or "-bwN": letters of Bool flags (maybe none), the letter of a value
\* flag, and a value N that is not empty, the whole being no registered name.
fusedValue(fl, t) ==
    /\ Len(t) > 2 /\ t[1] = "-" /\ t[2] # "-"
    /\ ~equalsName(fl, t)
    /\ bools(fl, t) + 2 < Len(t)
    /\ isValued(fl, t[bools(fl, t) + 2])

fusedN(fl, t) == SubSeq(t, bools(fl, t) + 3, Len(t))

\* The fused value is not of the form "-w=V" and N does not start with '-'.
properlyFused(fl, t) ==
    fusedValue(fl, t) /\ named(fl, t) = {} /\ fusedN(fl, t)[1] # "-"

\* The command line with each group in front of "--" written as its letters.
RECURSIVE ungroup(_, _)
ungroup(fl, l) ==
    IF l = <<>> THEN <<>>
    ELSE IF Head(l) = dashdash THEN l
    ELSE IF boolGroup(fl, Head(l)) THEN singles(Tail(Head(l))) \o ungroup(fl, Tail(l))
    ELSE <<Head(l)>> \o ungroup(fl, Tail(l))

\* One token "-bwN" written as "-b", "-w", "N".
unfuseToken(fl, t) ==
    singles(SubSeq(t, 2, bools(fl, t) + 2)) \o <<fusedN(fl, t)>>

\* The command line with each fused value in front of "--" written out; with
\* proper set, only the properly fused ones.
RECURSIVE unfuse(_, _, _)
unfuse(fl, l, proper) ==
    IF l = <<>> THEN <<>>
    ELSE IF Head(l) = dashdash THEN l
    ELSE IF (IF proper THEN properlyFused(fl, Head(l)) ELSE fusedValue(fl, Head(l)))
    THEN unfuseToken(fl, Head(l)) \o unfuse(fl, Tail(l), proper)
    ELSE <<Head(l)>> \o unfuse(fl, Tail(l), proper)

\* What Parse makes of the command line l in place of line: the first Parse
\* call of the program, on the same flags with the same options.
parsing(l) == Parse([pre.f EXCEPT !.Args = l], pre.opt)

\* The state is what that Parse call leaves: the same error, the same bound
\* values and Set() results, the same Flags.Args.
sameAs(r) == err = r.err /\ flags = r.f.flags /\ Args = r.f.Args

(***************************************************************************)
(* C6: a group "-abc" of single-letter Bool flags, in any order and for    *)
(* any subset of the letters, gives the same bound values, the same Set()  *)
(* results and the same Flags.Args as "-a", "-b", "-c".                    *)
(***************************************************************************)
C6_GroupingEquivalence ==
    Parsed =>
        \A l \in {ungroup(given, line)} :
            l # line => \A r \in {parsing(l)} : sameAs(r)

C6_Witness ==
    /\ Parsed /\ err = nil
    /\ \E k \in 1..Len(line) : boolGroup(given, line[k]) /\ Len(line[k]) = 4
    /\ Len(ungroup(given, line)) >= Len(line) + 2
    /\ \A n \in Handles : flags[n].kind = "Bool" /\ flags[n].s /\ flags[n].v = TRUE
    /\ Args # <<>>

longNamed(fl, t) ==
    {n \in 1..Len(fl) :
        \E k \in 1..Len(fl[n].names) : Len(fl[n].names[k]) > 1 /\ fl[n].names[k] = norm(t)}

\* The single-letter flags named by the characters of the token.
letterFlags(fl, t) == UNION {lettered(fl, t[k]) : k \in 1..Len(t)}

\* The flag tokens of the command line all are the long name of flag n, whose
\* characters name single-letter flags as well; there is no "--".
C8_OnlyLong(n) ==
    /\ \E k \in 1..Len(line) : flagLike(line[k])
    /\ \A k \in 1..Len(line) :
           flagLike(line[k]) =>
               /\ line[k] # dashdash
               /\ longNamed(given, line[k]) = {n}
               /\ letterFlags(given, line[k]) \ {n} # {}

(***************************************************************************)
(* C8: a token that, without its leading dashes, is a registered name of   *)
(* more than one character binds the flag of that name and none of the     *)
(* single-letter flags its characters name, in whatever order the flags    *)
(* were registered.                                                        *)
(***************************************************************************)
C8_LongNamePrecedence ==
    Parsed =>
        \A n \in Handles :
            C8_OnlyLong(n) =>
                /\ \A m \in Handles \ {n} : ~flags[m].s /\ flags[m].v = given[m].v
                /\ err.kind # "ErrFlagUnknown"
                /\ err = nil => flags[n].s
                /\ given[n].kind = "Bool" => err = nil /\ flags[n].v = TRUE

C8_Witness ==
    /\ Parsed /\ err = nil
    /\ \E n \in Handles :
           /\ C8_OnlyLong(n) /\ n > 1 /\ flags[n].s
           /\ \A m \in 1..(n - 1) : m \in letterFlags(given, given[n].names[1])

(***************************************************************************)
(* Lists and counters.                                                     *)
(***************************************************************************)
\* The values flag n is given from position k of the command line on, up to
\* "--".
RECURSIVE values(_, _, _, _)
values(rd, kind, n, k) ==
    IF k >= rd.term THEN <<>>
    ELSE IF rd.at[k].carrier = {n} /\ rd.at[k].value.has
    THEN <<converted(kind, rd.at[k].value.val).x>> \o values(rd, kind, n, k + 1)
    ELSE values(rd, kind, n, k + 1)

occurs(rd, n) == \E k \in 1..(rd.term - 1) : rd.at[k].carrier = {n}

\* Every flag token in front of "--" is harmless or gives a list flag a proper
\* value.
C9_OnlyLists(rd) ==
    \A k \in 1..(rd.term - 1) :
        \/ rd.at[k].harmless
        \/ /\ rd.at[k].proper
           /\ \A m \in rd.at[k].carrier : given[m].kind \in {"StringList", "IntList"}

(***************************************************************************)
(* C9: a StringList or IntList flag given k times holds, after a Parse     *)
(* that returns no error, the k given values in the order of the command   *)
(* line, and its repetition raises no duplicate-flag error.                *)
(***************************************************************************)
C9_ListOrder ==
    Parsed =>
        \A rd \in {reading(given, line)} :
            /\ (C9_OnlyLists(rd) /\ pre.opt.pos = <<0, 0>>) => err = nil
            /\ err = nil =>
                   \A n \in Handles :
                       (given[n].kind \in {"StringList", "IntList"} /\ occurs(rd, n))
                       => /\ flags[n].v = values(rd, given[n].kind, n, 1)
                          /\ values(rd, given[n].kind, n, 1) # <<>> => flags[n].s

C9_Witness ==
    /\ Parsed /\ err = nil
    /\ \E n \in Handles :
           /\ given[n].kind = "StringList"
           /\ Len(flags[n].v) = 3
           /\ flags[n].v[1] # flags[n].v[2] /\ flags[n].v[2] # flags[n].v[3]

\* How often the token at position k gives flag n: once by name, or once for
\* each of the letters of a group that name it.
count(fl, l, rd, n, k) ==
    IF rd.at[k].shape.is = "named" THEN (IF rd.at[k].shape.named = {n} THEN 1 ELSE 0)
    ELSE Cardinality({m \in 1..rd.at[k].shape.sw : n \in lettered(fl, l[k][m + 1])})

RECURSIVE total(_, _, _, _, _)
total(fl, l, rd, n, k) ==
    IF k >= rd.term THEN 0
    ELSE count(fl, l, rd, n, k) + total(fl, l, rd, n, k + 1)

\* The flag tokens in front of "--" only name Bool and IntCounter flags.
C10_OnlySwitches(rd) == \A k \in 1..(rd.term - 1) : rd.at[k].harmless

\* The tokens in front of "--" that do not look like flags.
plain(l) == SelectSeq(SubSeq(l, 1, terminator(l) - 1), LAMBDA t : ~flagLike(t))

(***************************************************************************)
(* C10: an IntCounter flag with default d holds d + n after a Parse that   *)
(* returns no error, n being the number of its occurrences with every      *)
(* letter of a group counted; its occurrences raise no duplicate-flag      *)
(* error and take no following token as a value.                            *)
(***************************************************************************)
C10_Counter ==
    Parsed =>
        \A rd \in {reading(given, line)} :
            /\ (C10_OnlySwitches(rd) /\ pre.opt.pos = <<0, 0>>) =>
                   /\ err = nil
                   /\ Len(Args) >= Len(plain(line))
                   /\ SubSeq(Args, 1, Len(plain(line))) = plain(line)
            /\ err = nil =>
                   \A n \in Handles :
                       given[n].kind = "IntCounter" =>
                           \A d \in {total(given, line, rd, n, 1)} :
                               /\ flags[n].v = given[n].v + d
                               /\ flags[n].s = (d > 0)

C10_Witness ==
    /\ Parsed /\ err = nil
    /\ Args = <<<<"x">>>>
    /\ \E rd \in {reading(given, line)} :
           /\ C10_OnlySwitches(rd)
           /\ \E n \in Handles :
                  /\ given[n].kind = "IntCounter" /\ given[n].v = 2 /\ flags[n].v = 5
                  /\ \E k \in 1..(Len(line) - 1) :
                         count(given, line, rd, n, k) = 2 /\ ~flagLike(line[k + 1])

(***************************************************************************)
(* The environment as a program with FromEnv(prefix) reads it.             *)
(***************************************************************************)
\* The name of the variable of a flag name: the prefix in upper case, one
\* '_', and the name in upper case with '_' for '-'.
envName(prefix, name) ==
    (IF prefix = <<>> THEN <<>> ELSE ToUpper(TrimRight(prefix, "_")) \o <<"_">>)
    \o ToUpper(ReplaceAll(name, "-", "_"))

\* The entry e is a variable of flag n: of one of its names of two characters
\* or more.
envGives(fl, prefix, e, n) ==
    \E i \in 1..Len(fl[n].names) :
        /\ Len(fl[n].names[i]) >= 2
        /\ ReplaceAll(ToUpper(Cut(e, "=").before), "-", "_") = envName(prefix, fl[n].names[i])

\* The texts the environment gives flag n, in the order of the environment;
\* the last one counts.
envTexts(fl, prefix, env, n) ==
    SelectSeq(env, LAMBDA e : envGives(fl, prefix, e, n))

envText(fl, prefix, env, n) ==
    Cut(envTexts(fl, prefix, env, n)[Len(envTexts(fl, prefix, env, n))], "=").after

\* The kinds an environment text is converted to, and the value of a kind that
\* a text stands for.
envKinds == {"Bool", "String", "Int", "Int64", "Float64", "IntCounter",
             "StringList", "IntList"}

envConverted(kind, val) ==
    CASE kind = "Bool" -> parseEnvBool(val).x
      [] kind = "IntCounter" ->
           IF parseEnvBool(val).ok THEN (IF parseEnvBool(val).x THEN 1 ELSE 0)
           ELSE ParseInt(val).x
      [] kind = "StringList" -> Split(val, ",")
      [] kind = "IntList" -> envInts(Split(val, ","), <<>>).v
      [] OTHER -> converted(kind, val).x

\* The positions in front of "--" at which the command line gives flag n.
occurrences(fl, l, rd, n) ==
    {k \in 1..(rd.term - 1) : n \in rd.at[k].carrier \/ count(fl, l, rd, n, k) > 0}

\* What one occurrence at k binds to flag n: true for a Bool, one for an
\* IntCounter, the value given for the scalar kinds, the list of that value
\* for the list kinds.
cliValue(fl, rd, n, k) ==
    CASE fl[n].kind = "Bool" -> TRUE
      [] fl[n].kind = "IntCounter" -> 1
      [] fl[n].kind \in {"StringList", "IntList"} ->
           <<converted(fl[n].kind, rd.at[k].value.val).x>>
      [] OTHER -> converted(fl[n].kind, rd.at[k].value.val).x

\* The occurrence at k gives flag n alone, with a value of its kind if it is
\* of a kind that takes one.
C11_Proper(fl, rd, n, k) ==
    IF fl[n].kind \in switchKinds THEN rd.at[k].shape.named = {n}
    ELSE rd.at[k].carrier = {n} /\ rd.at[k].proper

keyOf(e) == ReplaceAll(ToUpper(Cut(e, "=").before), "-", "_")

RECURSIVE keysOf(_)
keysOf(env) == IF env = <<>> THEN <<>> ELSE <<keyOf(Head(env))>> \o keysOf(Tail(env))

\* The entries that carry the prefix, have at least least characters after
\* it, and are the variable of no flag name of at least least characters.
unmatched(fl, prefix, env, least) ==
    SelectSeq(env, LAMBDA e :
        /\ HasPrefix(keyOf(e), envName(prefix, <<>>))
        /\ Len(keyOf(e)) - Len(envName(prefix, <<>>)) >= least
        /\ \A n \in 1..Len(fl) : \A i \in 1..Len(fl[n].names) :
               Len(fl[n].names[i]) >= least =>
                   keyOf(e) # envName(prefix, fl[n].names[i]))

\* The environment without the entries unk.
without(env, unk) ==
    SelectSeq(env, LAMBDA e : \A i \in 1..Len(unk) : unk[i] # e)

\* What the first Parse call of the program makes of the environment env in
\* place of environ: on the same flags and command line, with the same options.
parsingEnv(env) ==
    Let(envLoop(pre.f.flags, envPrefix(pre.opt.envPrefix), env, <<>>), LAMBDA e :
        IF e.err.kind \in {"nil", "ErrUnknownEnv"}
        THEN parseArgs([pre.f EXCEPT !.flags = e.flags], pre.opt, e.err)
        ELSE [f |-> [pre.f EXCEPT !.flags = e.flags], err |-> e.err])

\* With unk the unmatched entries: if Parse returns no error without them, it
\* returns ErrUnknownEnv for them and leaves what it leaves without them.
C12_Soft(unk) ==
    unk # <<>> =>
        \A r \in {parsingEnv(without(environ, unk))} :
            r.err = nil =>
                /\ err.kind = "ErrUnknownEnv"
                /\ err.Prefix = envName(pre.opt.envPrefix, <<>>)
                /\ err.Vars = keysOf(unk)
                /\ flags = r.f.flags
                /\ Args = r.f.Args
                /\ Args = positionals(given, line)

Shifted == ret.n > 0 /\ script = <<>>

\* The position of the token ShiftCommand stops at: the first that is empty
\* or neither starts with '-' nor contains '='; 0 when there is none.
stopsAt(args) ==
    LET ks == {k \in 1..Len(args) :
                  args[k] = <<>> \/ (args[k][1] # "-" /\ IndexByte(args[k], "=") = -1)}
    IN  IF ks = {} THEN 0 ELSE CHOOSE k \in ks : \A j \in ks : k <= j

\* There is a candidate command, and the candidate in lower case.
hasCandidate(args) == stopsAt(args) # 0 /\ args[stopsAt(args)] # <<>>
candidate(args) == ToLower(args[stopsAt(args)])

\* The command an entry stands for: the target of "alias=target".
target(entry) ==
    IF IndexByte(entry, "=") > -1
    THEN SubSeq(entry, IndexByte(entry, "=") + 2, Len(entry)) ELSE entry

\* The entries of cmds the text c is a prefix of, as the commands they stand
\* for, in the order of cmds.
RECURSIVE prefixed(_, _)
prefixed(cmds, c) ==
    IF cmds = <<>> THEN <<>>
    ELSE (IF HasPrefix(Head(cmds), c) THEN <<target(Head(cmds))>> ELSE <<>>)
         \o prefixed(Tail(cmds), c)

(***************************************************************************)
(* C13: ShiftCommand with a non-empty list of known commands, for the      *)
(* candidate c in lower case: when c equals a known command it returns c;  *)
(* otherwise, when c is a prefix of exactly one entry it returns the       *)
(* command of that entry, the target of an alias; when of none, the        *)
(* unknown-command error for c; when of several, the ambiguous-command     *)
(* error for c that lists the commands of all of them in the order of the  *)
(* list.                                                                   *)
(***************************************************************************)
C13_ResolveCommand ==
    (Shifted /\ ret.cmds # <<>> /\ hasCandidate(ret.f.Args)) =>
        \A c \in {candidate(ret.f.Args)} : \A found \in {prefixed(ret.cmds, c)} :
            IF \E i \in 1..Len(ret.cmds) : ret.cmds[i] = c
            THEN ret.a = c /\ ret.err = nil
            ELSE IF Len(found) = 1
            THEN ret.a = found[1] /\ ret.err = nil
            ELSE IF Len(found) = 0
            THEN ret.err.kind = "ErrCommandUnknown" /\ ret.err.flag = c /\ ret.a = <<>>
            ELSE /\ ret.err.kind = "ErrCommandAmbiguous"
                 /\ ret.err.Cmd = c /\ ret.err.Opts = found /\ ret.a = <<>>

\* The candidate is a known command and a prefix of an entry listed before
\* it, and ShiftCommand returned it.
C13_Witness ==
    /\ Shifted /\ hasCandidate(ret.f.Args)
    /\ \E i, j \in 1..Len(ret.cmds) :
           /\ i < j /\ ret.cmds[j] = candidate(ret.f.Args)
           /\ HasPrefix(ret.cmds[i], ret.cmds[j]) /\ ret.cmds[i] # ret.cmds[j]
    /\ ret.a = candidate(ret.f.Args) /\ ret.err = nil
    /\ stopsAt(ret.f.Args) = 2

(***************************************************************************)
(* The number of positionals.                                              *)
(***************************************************************************)
\* What the first Parse call of the program makes of the options opt in place
\* of its own, on the same flags and command line.
parsingWith(opt) == Parse(pre.f, opt)

\* The positionals Parse finds: what it leaves in Flags.Args when it is given
\* no bound for them; found tells that it returns no error then.
C14_Found ==
    Let(parsingWith([pre.opt EXCEPT !.pos = <<0, 0>>]),
        LAMBDA r : [found |-> r.err = nil, n |-> Len(r.f.Args), p |-> r.f.Args])

(***************************************************************************)
(* C14: when the scan of the command line raises no error and finds n      *)
(* positionals, Parse with Positional(min, max) returns the                *)
(* positional-count error, carrying min, max and n, exactly when min > 0   *)
(* and n < min, or max > 0 and n > max, or min = -1 and n > 0; otherwise   *)
(* it returns no error and leaves the n positionals in Flags.Args.  So     *)
(* Positional(0, 0) and no option accept every count, and with min = -1    *)
(* the error depends on n > 0 alone.                                       *)
(***************************************************************************)
C14_PositionalCount ==
    Parsed =>
        \A c \in {C14_Found} :
            c.found =>
                \A min \in {pre.opt.pos[1]} : \A max \in {pre.opt.pos[2]} :
                    /\ (\A k \in 1..Len(line) : ~flagLike(line[k])) => c.n = Len(line)
                    /\ IF \/ (min > 0 /\ c.n < min)
                          \/ (max > 0 /\ c.n > max)
                          \/ (min = -1 /\ c.n > 0)
                       THEN /\ err.kind = "ErrPositional"
                            /\ err.min = min /\ err.max = max /\ err.n = c.n
                       ELSE err = nil /\ Args = c.p
                    /\ (min = 0 /\ max = 0) => err = nil
                    /\ min = -1 => (err = nil <=> c.n = 0)

\* Positional(1, 2) with three positionals.
C14_Witness ==
    /\ Parsed /\ pre.opt.pos = <<1, 2>>
    /\ err.kind = "ErrPositional" /\ err.n = 3 /\ err.min = 1 /\ err.max = 2
    /\ C14_Found.found /\ C14_Found.n = 3

(***************************************************************************)
(* Two Parse calls on the same Flags: log[1] and log[2] hold the receiver  *)
(* and the options at the entry of each, and the receiver and the error at *)
(* its return.                                                             *)
(***************************************************************************)
Twice == Len(log) = 2

\* The flags registered when the first call returned hold at the end what
\* they held then: the same values and the same Set() results.
sameFlags ==
    \A n \in 1..Len(log[1].after.flags) : flags[n] = log[1].after.flags[n]

(***************************************************************************)
(* C15: when a first Parse (without AllowUnknown) returns no error, a      *)
(* second Parse with no options on the same Flags returns no error, leaves *)
(* Flags.Args as the first call left it, and changes no flag value.        *)
(***************************************************************************)
C15_ReparseIdempotent ==
    (/\ Twice
     /\ log[1].err = nil /\ ~log[1].opt.allowUnknown
     /\ log[2].opt = NoOpts /\ Len(log[2].f.flags) = Len(log[1].after.flags))
    => /\ err = nil
       /\ Args = log[1].after.Args
       /\ sameFlags

(***************************************************************************)
(* Parsing in stages: a first Parse(AllowUnknown()) with some of the flags *)
(* registered, a second Parse() with all of them.                          *)
(***************************************************************************)
Staged ==
    /\ Twice
    /\ log[1].opt = AllowUnknown /\ log[2].opt = NoOpts
    /\ Len(log[2].f.flags) > Len(log[1].after.flags)

\* Read with the flags fl, the command line l gives no flag wrongly: in front
\* of "--" every flag token is harmless or gives one value flag a proper
\* value, no scalar flag is given twice and no token is unknown.
wellGiven(fl, l, rd) ==
    /\ \A k \in 1..(rd.term - 1) : rd.at[k].harmless \/ rd.at[k].proper
    /\ \A i, j \in 1..(rd.term - 1) :
           (i # j /\ rd.at[i].carrier # {} /\ rd.at[i].carrier = rd.at[j].carrier)
           => \A n \in rd.at[i].carrier : fl[n].kind \notin scalarKinds

\* The flags fl are bound as the command line read as rd gives them.
boundAs(fl, l, rd, bound) ==
    \A n \in 1..Len(fl) : \A occ \in {occurrences(fl, l, rd, n)} :
        /\ bound[n].s = (occ # {})
        /\ \A k \in occ : occ = {k} => bound[n].v = cliValue(fl, rd, n, k)
        /\ occ = {} => bound[n].v = fl[n].v

(***************************************************************************)
(* C16: for a command line that gives every flag properly, the first       *)
(* Parse(AllowUnknown()) returns no error, binds the flags registered so   *)
(* far and leaves in Flags.Args, in their order, the positionals and the   *)
(* tokens of the flags not yet registered; the second Parse(), with the    *)
(* remaining flags registered, returns no error, binds those flags from    *)
(* the tokens kept and leaves the positionals of the command line in       *)
(* Flags.Args.                                                             *)
(***************************************************************************)
C16_StagedParsing ==
    Staged =>
        \A l \in {log[1].f.Args} : \A all \in {log[2].f.flags} :
        \A rd \in {reading(all, l)} :
            wellGiven(all, l, rd) =>
                /\ log[1].err = nil
                /\ log[1].after.Args = positionals(log[1].f.flags, l)
                /\ \A fst \in {log[1].f.flags} : \A n \in 1..Len(fst) :
                       log[1].after.flags[n].s
                           = (occurrences(fst, l, reading(fst, l), n) # {})
                /\ err = nil
                /\ boundAs(all, l, rd, flags)
                /\ Args = positionals(all, l)

(***************************************************************************)
(* Optional().                                                             *)
(***************************************************************************)
\* Flag n, which takes a value, is given once on the command line, by its
\* first flag token, at position k, and without "=value".
C17_Given(k, n) ==
    /\ k \in 1..Len(line)
    /\ \A j \in 1..(k - 1) : ~flagLike(line[j])
    /\ named(given, line[k]) = {n}
    /\ given[n].kind \in valueKinds
    /\ IndexByte(line[k], "=") = -1
    /\ \A j \in 1..Len(line) : j # k => n \notin named(given, line[j])

C17_Bare(k) == k = Len(line) \/ flagLike(line[k + 1])

\* One call of the program: Optional() marks, a constructor hands the mark to
\* the flag it registers and clears it, and no call changes the mark of a flag
\* registered before.
C17_Call ==
    script # <<>> =>
        /\ Head(script).fn = "Optional" => optional' /\ flags' = flags
        /\ Head(script).fn \notin {"Optional", "Parse"} =>
               /\ Len(flags') = Len(flags) + 1
               /\ flags'[Len(flags')].o = optional
               /\ ~optional'
        /\ \A n \in 1..Len(flags) : flags'[n].o = flags[n].o

\* What Parse does with a flag given without a value, by the flag's mark.
C17_Parsed ==
    Parsed => \A k \in 1..Len(line) : \A n \in Handles :
        C17_Given(k, n) =>
            /\ (given[n].o /\ C17_Bare(k))
               => /\ err.flag # line[k]
                  /\ flags[n].s /\ flags[n].v = given[n].v
            /\ (given[n].o /\ ~C17_Bare(k) /\ converted(given[n].kind, line[k + 1]).ok)
               => /\ err.flag # line[k]
                  /\ flags[n].s
                  /\ flags[n].v = converted(given[n].kind, line[k + 1]).x
            /\ (~given[n].o /\ C17_Bare(k))
               => /\ err.kind = "needs an argument" /\ err.flag = line[k]

(***************************************************************************)
(* C17: Optional() marks exactly the flag registered next.  For a marked   *)
(* flag an occurrence without a value (last token, or a flag-like token    *)
(* after it) raises no error, keeps the default and makes Set() true, and  *)
(* an occurrence followed by another token binds that token; a flag        *)
(* without the mark given without a value makes Parse return "needs an     *)
(* argument".                                                              *)
(***************************************************************************)
C17_OptionalNextOnly == [][C17_Call]_vars /\ []C17_Parsed

(***************************************************************************)
(* Spellings of a flag name.                                               *)
(***************************************************************************)
\* The constructor calls of the program, in order: the n-th registers the
\* flag with handle n.
registrations ==
    SelectSeq(program, LAMBDA c : c.fn \notin {"Optional", "Parse", "Shift", "ShiftCommand"})

\* A text without its leading dashes, and the name a token spells: what is
\* between its leading dashes and its first '='.
undashed(t) == IF t # <<>> /\ Head(t) = "-" THEN TrimLeft(t, "-") ELSE t
spelled(t) ==
    LET u == undashed(t)
    IN  IF IndexByte(u, "=") = -1 THEN u ELSE SubSeq(u, 1, IndexByte(u, "="))

\* Two spellings of a name differ only in letter case and in '_' for '-'.
foldCh(c) == IF c = "_" THEN "-" ELSE ToLowerCh(c)
alike(x, y) ==
    /\ Len(x) = Len(y)
    /\ \A i \in 1..Len(x) : foldCh(x[i]) = foldCh(y[i])

\* The first flag token of the command line, at position k, spells a name
\* alike one of the names flag n was registered under.
C18_Spells(k, n) ==
    /\ k \in 1..Len(line) /\ n \in 1..Len(registrations)
    /\ \A j \in 1..(k - 1) : ~flagLike(line[j])
    /\ flagLike(line[k])
    /\ \E i \in 1..Len(registrations[n].names) :
           alike(spelled(line[k]), undashed(registrations[n].names[i]))

C20_Consumed(c, k, n) ==
    LET l  == log[c].f.Args
        fl == log[c].f.flags
    IN  /\ k \in 1..Len(l) /\ n \in 1..Len(fl)
        /\ \A j \in 1..(k - 1) : ~flagLike(l[j])
        /\ named(fl, l[k]) = {n}
        /\ \/ fl[n].kind \in switchKinds
           \/ IndexByte(l[k], "=") # -1
           \/ k < Len(l) /\ ~flagLike(l[k + 1])

\* No call makes Set() of a flag false once it is true for an occurrence on
\* the command line.
C20_Kept ==
    \A n \in 1..Len(flags) : (flags[n].s /\ ~flags[n].e) => flags'[n].s

\* No later step of a Parse call does.
C20_Within ==
    \A c \in 1..Len(log) : \A k \in 1..Len(log[c].f.Args) :
        \A n \in 1..Len(log[c].f.flags) :
            C20_Consumed(c, k, n) => log[c].after.flags[n].s

(***************************************************************************)
(* C20: Set() of a flag is monotonic: once an occurrence of the flag on    *)
(* the command line has been consumed and Set() is true, no later step of  *)
(* that Parse call and no later call, whatever its options and whether or  *)
(* not it returns an error, makes Set() of the flag false.                 *)
(***************************************************************************)
C20_SetMonotonic == [][C20_Kept]_vars /\ []C20_Within

(***************************************************************************)
(* C21: when Parse returns an error, calling Parse again on the same Flags *)
(* with the same options, with no flag registered in between and the       *)
(* arguments and the environment left alone, returns the same error: the   *)
(* same kind, naming the same token.                                       *)
(***************************************************************************)
C21_SameErrorAgain ==
    (/\ Twice
     /\ log[1].err # nil
     /\ log[2].opt = log[1].opt
     /\ log[2].f = log[1].after)
    => /\ err.kind = log[1].err.kind
       /\ err.flag = log[1].err.flag

(***************************************************************************)
(* C22: a flag registered with Int32 behaves on the command line like the  *)
(* other numeric scalar kinds: <<"-n", "5">> and <<"-n=5">> return no      *)
(* error, bind 5, make Set() true and leave no value token in Flags.Args,  *)
(* and a second occurrence returns the duplicate-flag error unless         *)
(* AllowMultiple is passed.                                                *)
(***************************************************************************)
C22_Int32LikeInt ==
    Parsed => \A n \in Handles :
        (given[n].kind = "Int32" /\ given[n].names = <<<<"n">>>>) =>
            /\ (line = <<<<"-", "n">>, <<"5">>>> \/ line = <<<<"-", "n", "=", "5">>>>)
               => /\ err = nil
                  /\ flags[n].s /\ flags[n].v = 5
                  /\ Args = <<>>
            /\ line = <<<<"-", "n", "=", "5">>, <<"-", "n", "=", "5">>>>
               => IF pre.opt.allowMultiple
                  THEN err = nil /\ flags[n].s /\ flags[n].v = 5 /\ Args = <<>>
                  ELSE err.kind = "ErrFlagDouble" /\ err.flag = <<"-", "n", "=", "5">>

(***************************************************************************)
(* Two flags under one name.                                               *)
(***************************************************************************)
\* The first flag token of the command line, at position k, names both flag
\* n and flag m, which were registered in this order, and no flag registered
\* before n.
C23_Both(k, n, m) ==
    /\ k \in 1..Len(line)
    /\ \A j \in 1..(k - 1) : ~flagLike(line[j])
    /\ n \in named(given, line[k]) /\ m \in named(given, line[k]) /\ n < m
    /\ \A i \in named(given, line[k]) : n <= i

\* Flag w is bound from the token at k, and flag l, which no token names
\* without naming w too, keeps its default and Set() false.
C23_Wins(k, w, l) ==
    /\ flags[w].s
    /\ given[w].kind = "String"
       => flags[w].v \in {SubSeq(line[j], IndexByte(line[j], "=") + 2, Len(line[j])) :
                             j \in {i \in k..Len(line) : w \in named(given, line[i])}}
    /\ given[w].kind = "Bool" => flags[w].v = TRUE
    /\ given[w].kind = "IntCounter" => flags[w].v > given[w].v
    /\ (\A j \in 1..Len(line) : l \in named(given, line[j]) => w \in named(given, line[j]))
       => ~flags[l].s /\ flags[l].v = given[l].v

(***************************************************************************)
(* C23: when two flags are registered under names that are the same once   *)
(* normalised, a token with that name is bound to the flag registered      *)
(* FIRST, and the flag registered later keeps its default value and Set()  *)
(* false.                                                                  *)
(***************************************************************************)
C23_FirstRegisteredWins ==
    Parsed => \A k \in 1..Len(line) : \A n, m \in Handles :
        C23_Both(k, n, m) => C23_Wins(k, n, m)

\* The statement with the flag registered last as the one that is bound.
C23_LastRegisteredWins ==
    Parsed => \A k \in 1..Len(line) : \A n, m \in Handles :
        (C23_Both(k, n, m) /\ \A i \in named(given, line[k]) : i <= m)
        => C23_Wins(k, m, n)

\* A String registered as "st-r" and another as "ST_R", given "-st_r=a": the
\* first holds "a", the second its default.
C23_Witness ==
    /\ Parsed /\ err = nil /\ Len(given) = 2
    /\ line = <<<<"-", "s", "t", "_", "r", "=", "a">>>>
    /\ C23_Both(1, 1, 2)
    /\ flags[1].v = <<"a">> /\ flags[1].s
    /\ flags[2].v = <<"d", "2">> /\ ~flags[2].s

(***************************************************************************)
(* ShiftCommand and Flags.Args.                                            *)
(***************************************************************************)
\* A token list without its k-th token.
dropAt(l, k) == SubSeq(l, 1, k - 1) \o SubSeq(l, k + 1, Len(l))

\* ShiftCommand has been called, on a list with a candidate command.
C24_Found == ret.n = 1 /\ hasCandidate(ret.f.Args)

\* It was called after a Parse that returned no error.
C24_AfterParse == ret.n = 1 /\ Len(log) = 1 /\ ret.f = log[1].after /\ log[1].err = nil

\* No flag of the command line took the token after it as its value.
C24_SelfContained ==
    \A l \in {log[1].f.Args} : \A rd \in {reading(log[1].f.flags, l)} :
        \A k \in 1..(rd.term - 1) :
            rd.at[k].carrier # {} =>
                \/ IndexByte(l[k], "=") # -1
                \/ k < Len(l) /\ flagLike(l[k + 1])

\* Exactly the candidate is removed, and the command is the same with the
\* candidate moved in front of the tokens that were skipped.
C24_Frame ==
    C24_Found =>
        \A l \in {ret.f.Args} : \A k \in {stopsAt(ret.f.Args)} :
            /\ ret.after.Args = dropAt(l, k)
            /\ \A r \in {ShiftCommand([ret.f EXCEPT !.Args = <<l[k]>> \o dropAt(l, k)],
                                      ret.cmds)} :
                   r.cmd = ret.a /\ r.err = ret.err /\ r.f.Args = ret.after.Args

\* ShiftCommand after Parse returns what it would have returned before.
C24_SameBefore ==
    \A r \in {ShiftCommand(log[1].f, ret.cmds)} : r.cmd = ret.a /\ r.err = ret.err

C25_Errors == {"ErrFlagUnknown", "ErrFlagDouble", "needs an argument",
               "ErrFlagInvalid", "ErrPositional"}

\* The command line after the expansion of its groups of short flags.
C25_Expanded == expandArgs(flags, line)

\* Parse of the first k tokens of the expanded command line, without the
\* check of the number of positionals.
C25_Upto(k) ==
    Parse([pre.f EXCEPT !.Args = SubSeq(C25_Expanded, 1, k)],
          [pre.opt EXCEPT !.pos = <<0, 0>>])

\* The longest part of the expanded command line in front of the offending
\* token: the longest that Parse accepts.
C25_Before ==
    CHOOSE k \in 0..Len(C25_Expanded) :
        /\ C25_Upto(k).err = nil
        /\ \A j \in (k + 1)..Len(C25_Expanded) : C25_Upto(j).err # nil

(***************************************************************************)
(* C25: when Parse returns an unknown-flag, duplicate-flag,                *)
(* needs-an-argument, invalid-number or positional-count error, every flag *)
(* bound before the offending token holds the value bound from the command *)
(* line (and, unless the offending token names it, has Set() true), and    *)
(* Flags.Args is not reduced to the positionals: it is the whole command   *)
(* line with its groups of short flags expanded, and the command line      *)
(* itself when that has no group.                                          *)
(***************************************************************************)
C25_ErrorLeavesProgress ==
    (Parsed /\ err.kind \in C25_Errors) =>
        /\ Args = C25_Expanded
        /\ (\A k \in 1..Len(line) :
                shape(given, line[k]).is \in {"plain", "--", "named", "unknown"})
           => Args = line
        /\ \A r \in {C25_Upto(C25_Before)} : \A n \in Handles :
               r.f.flags[n].s =>
                   /\ flags[n].v = r.f.flags[n].v
                   /\ n \notin named(given, err.flag) => flags[n].s

\* "-s=a" and "-vv" were bound before "-x" was met: Flags.Args still holds
\* all of them, the group expanded.
C25_Witness ==
    /\ Parsed /\ err.kind = "ErrFlagUnknown"
    /\ line = <<<<"-", "s", "=", "a">>, <<"-", "v", "v">>, <<"-", "x">>>>
    /\ Args = <<<<"-", "s", "=", "a">>, <<"-", "v">>, <<"-", "v">>, <<"-", "x">>>>
    /\ C25_Before = 3
    /\ flags[1].s /\ flags[2].s /\ flags[2].v = <<"a">>

(***************************************************************************)
(* C26: the default of a StringList or IntList flag is discarded by the    *)
(* first occurrence of the flag on the command line: after a Parse that    *)
(* returns no error, a flag with k >= 1 occurrences holds exactly the      *)
(* values given, k of them when each occurrence has one, and none of the   *)
(* default; a flag with no occurrence holds its default and has Set()      *)
(* false.                                                                  *)
(***************************************************************************)
C26_ListDefaultDiscarded ==
    (Parsed /\ err = nil) =>
        \A rd \in {reading(given, line)} : \A n \in Handles :
            given[n].kind \in {"StringList", "IntList"} =>
                \A occ \in {{k \in 1..(rd.term - 1) : rd.at[k].carrier = {n}}} :
                    /\ occ # {} =>
                           /\ flags[n].v = values(rd, given[n].kind, n, 1)
                           /\ (\A k \in occ : rd.at[k].value.has)
                              => Len(flags[n].v) = Cardinality(occ) /\ flags[n].s
                           /\ \A i \in 1..Len(flags[n].v) :
                                  \E k \in occ :
                                      /\ rd.at[k].value.has
                                      /\ flags[n].v[i]
                                           = converted(given[n].kind, rd.at[k].value.val).x
                    /\ occ = {} => flags[n].v = given[n].v /\ ~flags[n].s

\* The StringList with default <<"d", "e">> is given twice and holds the two
\* values; the IntList with default <<9>> is given once and holds that value.
C26_Witness ==
    /\ Parsed /\ err = nil
    /\ line = <<<<"-", "s", "=", "a">>, <<"-", "n", "=", "1">>, <<"-", "s", "=", "d">>>>
    /\ flags[1].v = <<<<"a">>, <<"d">>>> /\ given[1].v = <<<<"d">>, <<"e">>>>
    /\ flags[2].v = <<1>> /\ given[2].v = <<9>>

(***************************************************************************)
(* C27: when ShiftCommand returns no-command-given, the tokens it shifted  *)
(* while it searched are not pushed back: when every token of Flags.Args   *)
(* starts with '-' or contains '=', Flags.Args is empty afterwards; when   *)
(* an empty token was met, Flags.Args holds the tokens after it; and a     *)
(* Parse that follows is given that list, so that it binds none of the     *)
(* flags shifted away.                                                     *)
(***************************************************************************)
C27_NoCommandLosesTokens ==
    (ret.n = 1 /\ ~hasCandidate(ret.f.Args)) =>
        \A l \in {ret.f.Args} : \A k \in {stopsAt(ret.f.Args)} :
            /\ ret.err.kind = "ErrCommandNoneGiven" /\ ret.a = <<>>
            /\ k = 0 => ret.after.Args = <<>>
            /\ k # 0 => l[k] = <<>> /\ ret.after.Args = SubSeq(l, k + 1, Len(l))
            /\ (Len(log) = 1 /\ log[1].f = ret.after) =>
                   /\ log[1].f.Args = IF k = 0 THEN <<>> ELSE SubSeq(l, k + 1, Len(l))
                   /\ \A n \in 1..Len(ret.f.flags) :
                          flags[n].s =>
                              \E j \in (k + 1)..Len(l) : k # 0 /\ n \in named(ret.f.flags, l[j])

\* ShiftCommand was given <<"-v", "-s=x">>, found no command and left nothing,
\* and the Parse after it bound neither flag.
C27_Witness ==
    /\ ret.n = 1 /\ Len(log) = 1 /\ log[1].f = ret.after
    /\ ret.f.Args = <<<<"-", "v">>, <<"-", "s", "=", "x">>>>
    /\ ret.err.kind = "ErrCommandNoneGiven"
    /\ Args = <<>> /\ err = nil
    /\ ~flags[1].s /\ ~flags[2].s

(***************************************************************************)
(* A value that is no number.                                              *)
(***************************************************************************)
\* Parse returned the invalid-number error for a token that names flag n.
C28_Invalid(n) ==
    /\ Parsed /\ err.kind = "ErrFlagInvalid"
    /\ n \in Handles /\ named(given, err.flag) = {n}

\* Flag n as it was when Parse met the offending token.
C28_Earlier(n) == C25_Upto(C25_Before).f.flags[n]

\* What holds of the scalar kinds, and of the Set() of an IntList.
C28_Scalars ==
    \A n \in Handles : C28_Invalid(n) =>
        \A was \in {C28_Earlier(n)} :
            /\ given[n].kind \in {"Int", "Int64", "Float64", "IntList"}
            /\ given[n].kind \in {"Int", "Int64", "Float64"}
               => flags[n].s /\ flags[n].v = was.v
            /\ given[n].kind = "IntList" => flags[n].s = was.s

(***************************************************************************)
(* C28: when Parse returns the invalid-number error for an occurrence of   *)
(* an Int, Int64 or Float64 flag, the value of the flag is unchanged (the  *)
(* default or the earlier value) and Set() of the flag is true; for an     *)
(* IntList flag Set() is unchanged and the elements given by earlier       *)
(* occurrences are unchanged, BUT when the occurrence is the first one the *)
(* list is emptied: the elements of the default are gone.                  *)
(***************************************************************************)
C28_InvalidNumber ==
    /\ C28_Scalars
    /\ \A n \in Handles : (C28_Invalid(n) /\ given[n].kind = "IntList") =>
           \A was \in {C28_Earlier(n)} :
               flags[n].v = IF was.s THEN was.v ELSE <<>>

\* The statement with the list unchanged in every case.
C28_AsStated ==
    /\ C28_Scalars
    /\ \A n \in Handles : (C28_Invalid(n) /\ given[n].kind = "IntList") =>
           flags[n].v = C28_Earlier(n).v

\* Parse(AllowMultiple()) on <<"-l=3", "-i=5", "-i=no">>: i still holds 5 and
\* the list 3.
C28_Witness ==
    /\ C28_Invalid(1) /\ pre.opt.allowMultiple
    /\ line = <<<<"-", "l", "=", "3">>, <<"-", "i", "=", "5">>, <<"-", "i", "=", "n", "o">>>>
    /\ flags[1].s /\ flags[1].v = 5
    /\ flags[4].s /\ flags[4].v = <<3>>

\* Parse on <<"-l=3", "-l=no">>: the list still holds 3.
C28_WitnessList ==
    /\ C28_Invalid(4)
    /\ line = <<<<"-", "l", "=", "3">>, <<"-", "l", "=", "n", "o">>>>
    /\ flags[4].s /\ flags[4].v = <<3>>

(***************************************************************************)
(* The environment read again by a second Parse.                           *)
(***************************************************************************)
\* The first of two Parse calls was made with FromEnv and got through the
\* environment and the command line.
C29_FirstDone ==
    /\ Twice /\ log[1].opt.fromEnv
    /\ log[1].err.kind \in {"nil", "ErrUnknownEnv"}

\* Flag n was given on the command line of the first call, with its value
\* where it takes one, and has a variable in the environment.
C29_Both(n) ==
    /\ n \in 1..Len(log[1].f.flags)
    /\ log[1].f.flags[n].kind \in envKinds
    /\ \A fl \in {log[1].after.flags} : \A l \in {log[1].f.Args} :
           /\ \A rd \in {reading(fl, l)} :
                  \E k \in occurrences(fl, l, rd, n) : C11_Proper(fl, rd, n, k)
           /\ envTexts(fl, log[1].opt.envPrefix, environ, n) # <<>>

\* What the variable of flag n is converted to.
C29_EnvValue(n) ==
    envConverted(log[1].f.flags[n].kind,
                 envText(log[1].after.flags, log[1].opt.envPrefix, environ, n))

(***************************************************************************)
(* C29: after two Parse calls on the same Flags of which the first was     *)
(* made with FromEnv, a flag the first call bound from the command line    *)
(* and that has a variable in the environment holds the value of the       *)
(* variable when the second call is made with FromEnv and the same prefix, *)
(* and the value of the command line when it is made without FromEnv.      *)
(***************************************************************************)
C29_EnvAgain ==
    C29_FirstDone =>
        \A n \in 1..Len(log[1].f.flags) : C29_Both(n) =>
            /\ flags[n].s
            /\ IF log[2].opt.fromEnv /\ log[2].opt.envPrefix = log[1].opt.envPrefix
               THEN flags[n].v = C29_EnvValue(n)
               ELSE flags[n].v = log[1].after.flags[n].v

\* The same wherever the first call leaves no token in Flags.Args that
\* starts with '-'.
C29_NoFlagLeft ==
    (C29_FirstDone /\ \A k \in 1..Len(log[1].after.Args) :
                          ~HasPrefix(log[1].after.Args[k], <<"-">>))
    => \A n \in 1..Len(log[1].f.flags) : C29_Both(n) =>
            /\ flags[n].s
            /\ IF log[2].opt.fromEnv /\ log[2].opt.envPrefix = log[1].opt.envPrefix
               THEN flags[n].v = C29_EnvValue(n) /\ flags[n].e
               ELSE flags[n].v = log[1].after.flags[n].v /\ ~flags[n].e

\* <<"-s1=c", "p">> with X_S1=e: c after the first call, e after the second.
C29_Witness ==
    /\ C29_FirstDone /\ log[2].opt.fromEnv /\ C29_Both(1)
    /\ log[1].f.Args = <<<<"-", "s", "1", "=", "c">>, <<"p">>>>
    /\ log[1].after.flags[1].v = <<"c">>
    /\ flags[1].v = <<"e">> /\ flags[1].e
    /\ Args = <<<<"p">>>>

(***************************************************************************)
(* Aliases.                                                                *)
(***************************************************************************)
\* The text of an entry in front of its '=': the alias, or the command.
C30_Name(entry) == Cut(entry, "=").before

\* The positions of the entries of cmds whose name starts with c.
C30_Hits(cmds, c) == {i \in 1..Len(cmds) : HasPrefix(C30_Name(cmds[i]), c)}

\* The commands the entries at the positions hits resolve to, in the order
\* of the list, one for each entry.
RECURSIVE C30_Targets(_, _, _)
C30_Targets(cmds, hits, i) ==
    IF i > Len(cmds) THEN <<>>
    ELSE (IF i \in hits THEN <<target(cmds[i])>> ELSE <<>>)
         \o C30_Targets(cmds, hits, i + 1)

(***************************************************************************)
(* C30: ShiftCommand counts the entries whose text in front of '=' starts  *)
(* with the candidate, not the commands they resolve to: when no entry is  *)
(* the candidate itself, two entries or more give the ambiguous-command    *)
(* error listing the command of each entry (so "c" with "commit" and       *)
(* "ci=commit" lists commit twice), one entry gives its command, and none  *)
(* gives the unknown-command error, also when the candidate is the target  *)
(* of an alias or begins it.                                               *)
(***************************************************************************)
C30_PerEntry ==
    (/\ Shifted /\ ret.cmds # <<>> /\ hasCandidate(ret.f.Args)
     /\ \A i \in 1..Len(ret.cmds) : ret.cmds[i] # candidate(ret.f.Args))
    => \A c \in {candidate(ret.f.Args)} : \A hits \in {C30_Hits(ret.cmds, c)} :
           /\ Cardinality(hits) >= 2 =>
                  /\ ret.err.kind = "ErrCommandAmbiguous" /\ ret.err.Cmd = c
                  /\ ret.err.Opts = C30_Targets(ret.cmds, hits, 1)
                  /\ ret.a = <<>>
           /\ Cardinality(hits) = 1 =>
                  ret.err = nil /\ ret.a = C30_Targets(ret.cmds, hits, 1)[1]
           /\ hits = {} =>
                  ret.err.kind = "ErrCommandUnknown" /\ ret.err.flag = c /\ ret.a = <<>>

\* "c" with the entries "commit" and "ci=commit": ambiguous, commit twice.
C30_Witness ==
    /\ Shifted /\ hasCandidate(ret.f.Args)
    /\ candidate(ret.f.Args) = <<"c">>
    /\ ret.cmds = <<<<"c", "o", "m", "m", "i", "t">>, <<"c", "i", "=", "c", "o", "m", "m", "i", "t">>>>
    /\ ret.err.kind = "ErrCommandAmbiguous"
    /\ ret.err.Opts = <<<<"c", "o", "m", "m", "i", "t">>, <<"c", "o", "m", "m", "i", "t">>>>

\* "com" with the one entry "ci=commit": the target is not matched.
C30_WitnessTarget ==
    /\ Shifted /\ hasCandidate(ret.f.Args)
    /\ candidate(ret.f.Args) = <<"c", "o", "m">>
    /\ ret.cmds = <<<<"c", "i", "=", "c", "o", "m", "m", "i", "t">>>>
    /\ ret.err.kind = "ErrCommandUnknown"

====
